---- MODULE Spec2Model ----
(***************************************************************************)
(* A model of not-redis: the storage engine with its expiration tasks      *)
(* (src/src/data/mod.rs), the stream engine (add_stream), and the          *)
(* connection handler with command fan-out to replicas (src/src/stream.rs, *)
(* src/src/server.rs).                                                     *)
(*                                                                         *)
(* Store commands run under the store's write lock, so each is one atomic  *)
(* step.  An expiration task is `sleep(dur).await; database.remove(&key)`: *)
(* it is "sleeping" until the runtime polls it after its deadline, and     *)
(* then "running": past its only await point, about to take (or blocked    *)
(* on) the store's write lock.  JoinHandle::abort cancels a task only at   *)
(* an await point, so it removes a sleeping task and leaves a running one  *)
(* to complete.                                                            *)
(***************************************************************************)
EXTENDS Integers, Sequences, FiniteSets, TLC

VARIABLES
    now,        \* the clock, in milliseconds
    db,         \* Database: key -> DatabaseItem
    tasks,      \* the spawned expiration tasks that have not finished
    superseded, \* history: ids of the live tasks scheduled before the latest
                \* insert under their key
    pending,    \* history, per key: the value and deadline of a SET that wrote
                \* the key and that no later command on the key has followed
    last,       \* the last step: the command, its reply, the events it sent on
                \* the broadcast channel, and what the key held before it
    conns,      \* handle_stream, one per accepted connection: where it is, the
                \* request it holds and its command_type
    master,     \* ServerRole::Master(streams, byte_offset, num_sets)
    wire,       \* per replica stream: the frames written to it, in order
    replicas,   \* handle_replica_stream at the far end of each replica stream:
                \* its store, the frames it has read, bytes_received
    executed,   \* history: how many commands the Primary has executed
    attachedInSync, \* history: the replica streams attached while the Primary's
                \* store was empty and no command was between execution and fan-out
    sync        \* sync_to_master of a process started with --replicaof: where
                \* it is, what it wrote and read, and whether it has spawned
                \* handle_replica_stream

storeVars == <<now, db, tasks, superseded, pending, last>>
replVars == <<conns, master, wire, replicas, executed, attachedInSync, sync>>
vars == <<now, db, tasks, superseded, pending, last,
          conns, master, wire, replicas, executed, attachedInSync, sync>>

---------------------------------------------------------------------------
(* Bounds of the model *)

MaxTime == 3
MaxDur == 2
MaxTasks == 2
MaxMs == 2
MaxSeq == 2
MaxEntries == 3
MaxCommands == 3
MaxInt == 1
MaxReplicas == 2
\* the longest timeout, in milliseconds, a WAIT is sent with
MaxWait == 1

Keys == {"k1", "k2"}
\* the keys the storage-engine specification sends commands for
StoreKeys == {"k1"}
\* the field/value lists of the stream entries tried
FieldLists == {"f", "g"}
Values == {"a", "b"}
\* the accepted connections
Conns == {"c1", "c2", "c3"}
Durations == 1..MaxDur

---------------------------------------------------------------------------
(* Data model: src/src/data/mod.rs *)

\* Option<Duration>::None on RedisString.duration
NoDuration == -1
\* Option<JoinHandle>::None on RedisString.cancellation_process
NoHandle == 0

\* HashMap::get returning None
NoItem == [kind |-> "none"]

RedisString(data, duration, handle) ==
    [kind |-> "string", data |-> data, duration |-> duration, handle |-> handle]

RedisStream(entries) == [kind |-> "stream", entries |-> entries]

InnerRedisStream(ms_time, sequence_number, items) ==
    [ms |-> ms_time, seq |-> sequence_number, items |-> items]

\* CommandExpiration (src/src/request.rs)
ExpNone == [kind |-> "None", dur |-> NoDuration]
ExpOther == [kind |-> "Other", dur |-> NoDuration]
Expiry(d) == [kind |-> "Expiry", dur |-> d]

SetOverride == {"Normal", "NeverOverwrite", "OnlyOverwrite"}

\* XAddNumber (src/src/request.rs)
Autogenerate == [auto |-> TRUE, val |-> 0]
Predetermined(v) == [auto |-> FALSE, val |-> v]

---------------------------------------------------------------------------
(* Replies: src/src/encoding/strings.rs, src/src/errors.rs *)

okay_string == [t |-> "simple", v |-> "OK"]
empty_string == [t |-> "null"]
bulk_string(s) == [t |-> "bulk", v |-> s]
error_string(s) == [t |-> "error", v |-> s]
encode_integer(n) == [t |-> "integer", n |-> n]
\* bulk_string(&inner.stream_id()): the text "<ms>-<seq>"
stream_id_string(ms, seq) == [t |-> "id", ms |-> ms, seq |-> seq]

wrong_type_str == "WRONGTYPE Operation against a key holding the wrong kind of value"
XaddZeroError == "ERR The ID specified in XADD must be greater than 0-0"
XaddSmallerError ==
    "ERR The ID specified in XADD is equal or smaller than the target stream top item"

---------------------------------------------------------------------------
(* Expiration tasks *)

TaskIds(ts) == {t.id : t \in ts}

\* tokio::spawn returns a handle to a new task: the least unused id names it
FreshId(ts) == CHOOSE i \in 1..(Cardinality(ts) + 1) :
                  /\ i \notin TaskIds(ts)
                  /\ \A j \in 1..(i - 1) : j \in TaskIds(ts)

\* spawn(async move { sleep(dur).await; database.remove(&key) })
spawn(ts, key, dur, t) ==
    [id |-> FreshId(ts), key |-> key, wake |-> t + dur, st |-> "sleeping"]

\* JoinHandle::abort as called by RedisString::abort_deletion_process: a task
\* suspended in sleep is cancelled; one past its await point runs to completion.
abort(ts, handle) ==
    {t \in ts : ~(t.id = handle /\ t.st = "sleeping")}

\* RedisString::abort_deletion_process: the tasks left
abort_deletion_process(ts, item) ==
    IF item.handle # NoHandle THEN abort(ts, item.handle) ELSE ts

\* DatabaseItem::clean_up
clean_up(ts, item) ==
    IF item.kind = "string" THEN abort_deletion_process(ts, item) ELSE ts

\* The deadline of the live task a handle names (NoDuration when there is none)
WakeOf(ts, handle) ==
    IF \E t \in ts : t.id = handle
    THEN (CHOOSE t \in ts : t.id = handle).wake
    ELSE NoDuration

---------------------------------------------------------------------------
(* Storage engine operations: each returns the store after it and the reply *)

\* inserted: the operation put a new item under the key (HashMap::insert)
Result(d, ts, reply) ==
    [db |-> d, tasks |-> ts, reply |-> reply, events |-> <<>>, inserted |-> FALSE]

Inserted(d, ts, reply, events) ==
    [db |-> d, tasks |-> ts, reply |-> reply, events |-> events, inserted |-> TRUE]

\* Database::get + commands::get_value
get_value(d, ts, key) ==
    LET item == d[key] IN
    CASE item.kind = "stream" -> Result(d, ts, error_string(wrong_type_str))
      [] item.kind = "string" -> Result(d, ts, bulk_string(item.data))
      [] OTHER -> Result(d, ts, empty_string)

\* Database::set_value + commands::set_value
set_value(d, ts, t, key, value, return_old_value, overwrites, expires) ==
    LET cur == d[key]
        is_some == cur.kind = "string"
    IN
    IF cur.kind = "stream" /\ return_old_value
    THEN Result(d, ts, error_string(wrong_type_str))
    ELSE
      LET return_data ==
              IF return_old_value
              THEN (IF is_some THEN bulk_string(cur.data) ELSE empty_string)
              ELSE okay_string
          duration ==
              CASE expires.kind = "None" -> NoDuration
                [] expires.kind = "Other" ->
                       (IF is_some THEN cur.duration ELSE NoDuration)
                [] OTHER -> expires.dur
          aborted == IF is_some THEN abort_deletion_process(ts, cur) ELSE ts
          process == spawn(aborted, key, duration, t)
          after == IF duration # NoDuration THEN aborted \cup {process} ELSE aborted
          handle == IF duration # NoDuration THEN process.id ELSE NoHandle
      IN
      IF \/ overwrites = "Normal"
         \/ (overwrites = "OnlyOverwrite" /\ is_some)
         \/ (overwrites = "NeverOverwrite" /\ ~is_some)
      THEN Inserted([d EXCEPT ![key] = RedisString(value, duration, handle)],
                    after, return_data, <<>>)
      ELSE IF is_some
      THEN Result([d EXCEPT ![key] = [cur EXCEPT !.handle = handle]],
                  after, return_data)
      ELSE Result(d, ts, return_data)

\* Database::update_expiration + commands::update_expiration (GETEX)
update_expiration(d, ts, t, key, expiration) ==
    LET item == d[key] IN
    CASE item.kind = "string" ->
           LET aborted == abort_deletion_process(ts, item)
               duration == IF expiration.kind = "Expiry"
                           THEN expiration.dur ELSE NoDuration
               process == spawn(aborted, key, duration, t)
           IN IF duration # NoDuration
              THEN Result([d EXCEPT ![key] = [item EXCEPT !.handle = process.id]],
                          aborted \cup {process}, bulk_string(item.data))
              ELSE Result([d EXCEPT ![key] = [item EXCEPT !.handle = NoHandle]],
                          aborted, bulk_string(item.data))
      [] item.kind = "stream" -> Result(d, ts, error_string(wrong_type_str))
      [] OTHER -> Result(d, ts, empty_string)

\* Database::get_remove + commands::get_delete_key (GETDEL)
get_remove(d, ts, key) ==
    LET item == d[key] IN
    CASE item.kind = "string" ->
           Result([d EXCEPT ![key] = NoItem], abort_deletion_process(ts, item),
                  bulk_string(item.data))
      [] item.kind = "stream" -> Result(d, ts, error_string(wrong_type_str))
      [] OTHER -> Result(d, ts, empty_string)

\* Database::get_type + commands::get_type (TYPE)
get_type(d, key) ==
    CASE d[key].kind = "string" -> bulk_string("string")
      [] d[key].kind = "stream" -> bulk_string("stream")
      [] OTHER -> bulk_string("none")

\* A faulty fold: every listed key is counted, present or not
RECURSIVE remove_fold_counting_listed(_, _, _, _)
remove_fold_counting_listed(d, ts, keys, acc) ==
    IF keys = <<>>
    THEN [db |-> d, tasks |-> ts, count |-> acc]
    ELSE LET key == Head(keys) IN
         IF d[key] # NoItem
         THEN remove_fold_counting_listed([d EXCEPT ![key] = NoItem],
                                          clean_up(ts, d[key]), Tail(keys), acc + 1)
         ELSE remove_fold_counting_listed(d, ts, Tail(keys), acc + 1)

\* Database::remove_multiple: the fold over the listed keys, in order
RECURSIVE remove_fold(_, _, _, _)
remove_fold(d, ts, keys, acc) ==
    IF keys = <<>>
    THEN [db |-> d, tasks |-> ts, count |-> acc]
    ELSE LET key == Head(keys) IN
         IF d[key] # NoItem
         THEN remove_fold([d EXCEPT ![key] = NoItem], clean_up(ts, d[key]),
                          Tail(keys), acc + 1)
         ELSE remove_fold(d, ts, Tail(keys), acc)

\* Database::remove_multiple + commands::delete_keys (DEL)
remove_multiple(d, ts, keys) ==
    LET r == remove_fold(d, ts, keys, 0)
    IN Result(r.db, r.tasks, encode_integer(r.count))

\* i64::MIN and i64::MAX of the narrow two's-complement integers of the model
i64_MIN == 0 - MaxInt - 1
i64_MAX == MaxInt

\* The integers an i64 holds
IntRange == i64_MIN..i64_MAX

\* str::parse::<i64>() failing
NotAnInteger == MaxInt + 1

\* str::parse::<i64>(): the integer the text spells, if it spells one
parse_i64(data) ==
    IF \E n \in IntRange : ToString(n) = data
    THEN CHOOSE n \in IntRange : ToString(n) = data
    ELSE NotAnInteger

not_an_integer == "ERR value is not an integer or out of range"

\* The context adjust_value_by_int puts on its wrong-kind error: the text the
\* error displays as
not_a_string(key) == "Item at key " \o key \o " is not a string"

not_a_float == "ERR value is not a float or out of range"

\* An f64 is kept as a number of halves; the halves the model's strings spell
HalfRange == (0 - (2 * MaxInt + 1))..(2 * MaxInt + 1)

\* str::parse::<f64>() failing
NotAFloat == 2 * MaxInt + 2

\* f64::to_string(): "1" for 1.0, "0.5", "-1.5"
f64_to_string(halves) ==
    IF halves % 2 = 0
    THEN ToString(halves \div 2)
    ELSE LET whole == (IF halves < 0 THEN 0 - halves ELSE halves) \div 2
         IN (IF halves < 0 THEN "-" ELSE "") \o ToString(whole) \o ".5"

\* str::parse::<f64>(): the halves the text spells, if it spells a number
parse_f64(data) ==
    IF \E halves \in HalfRange : f64_to_string(halves) = data
    THEN CHOOSE halves \in HalfRange : f64_to_string(halves) = data
    ELSE NotAFloat

\* str::find('.').is_some(), over the texts the model stores
has_dot(data) ==
    \/ \E halves \in HalfRange : halves % 2 # 0 /\ f64_to_string(halves) = data
    \/ data = "a.b"

would_overflow == "ERR increment or decrement would overflow"

\* A faulty adjust_int_value_by_int whose sum wraps round
adjust_int_value_wrapping(data, amount) ==
    IF parse_i64(data) = NotAnInteger
    THEN [t |-> "Err", v |-> not_an_integer]
    ELSE LET sum == parse_i64(data) + amount
             width == i64_MAX - i64_MIN + 1
         IN [t |-> "Ok",
             v |-> ToString(IF sum > i64_MAX THEN sum - width
                            ELSE IF sum < i64_MIN THEN sum + width ELSE sum)]

\* adjust_int_value_by_int: Ok with the new text, or the Err of parse or of
\* checked_add
adjust_int_value_by_int(data, amount) ==
    IF parse_i64(data) = NotAnInteger
    THEN [t |-> "Err", v |-> not_an_integer]
    ELSE IF (parse_i64(data) + amount) \notin IntRange
    THEN [t |-> "Err", v |-> would_overflow]
    ELSE [t |-> "Ok", v |-> ToString(parse_i64(data) + amount)]

\* A faulty adjust_float_value_by_int that refuses what is not an integer
adjust_float_value_refused(data, amount) ==
    [t |-> "Err", v |-> not_an_integer]

\* adjust_float_value_by_int
adjust_float_value_by_int(data, amount) ==
    IF parse_f64(data) = NotAFloat
    THEN [t |-> "Err", v |-> not_a_float]
    ELSE [t |-> "Ok", v |-> f64_to_string(parse_f64(data) + 2 * amount)]

\* adjust_float_value_by_float, the amount in halves
adjust_float_value_by_float(data, amount) ==
    IF parse_f64(data) = NotAFloat
    THEN [t |-> "Err", v |-> not_a_float]
    ELSE [t |-> "Ok", v |-> f64_to_string(parse_f64(data) + amount)]

\* adjust_int_value_by_float, the amount in halves
adjust_int_value_by_float(data, amount) ==
    IF parse_i64(data) = NotAnInteger
    THEN [t |-> "Err", v |-> not_an_integer]
    ELSE [t |-> "Ok", v |-> f64_to_string(2 * parse_i64(data) + amount)]

\* Database::adjust_value_by_int + commands::increment_value_by_int
\* (INCR, INCRBY, DECR, DECRBY)
adjust_value_by_int(d, ts, key, adjustment) ==
    LET item == d[key] IN
    CASE item.kind = "string" ->
           LET value == IF has_dot(item.data)
                        THEN adjust_float_value_by_int(item.data, adjustment)
                        ELSE adjust_int_value_by_int(item.data, adjustment)
           IN IF value.t = "Err"
              THEN Result(d, ts, error_string(value.v))
              ELSE Result([d EXCEPT ![key] = [item EXCEPT !.data = value.v]], ts,
                          IF has_dot(value.v)
                          THEN bulk_string(value.v)
                          ELSE encode_integer(parse_i64(value.v)))
      [] item.kind = "stream" -> Result(d, ts, error_string(not_a_string(key)))
      [] OTHER ->
           Inserted([d EXCEPT ![key] =
                         RedisString(ToString(adjustment), NoDuration, NoHandle)],
                    ts, encode_integer(adjustment), <<>>)

\* Database::adjust_value_by_float + commands::increment_value_by_float
\* (INCRBYFLOAT), the adjustment in halves
adjust_value_by_float(d, ts, key, adjustment) ==
    LET item == d[key] IN
    CASE item.kind = "string" ->
           LET value == IF has_dot(item.data)
                        THEN adjust_float_value_by_float(item.data, adjustment)
                        ELSE adjust_int_value_by_float(item.data, adjustment)
           IN IF value.t = "Err"
              THEN Result(d, ts, error_string(value.v))
              ELSE Result([d EXCEPT ![key] = [item EXCEPT !.data = value.v]], ts,
                          bulk_string(value.v))
      [] item.kind = "stream" -> Result(d, ts, error_string(not_a_string(key)))
      [] OTHER ->
           Inserted([d EXCEPT ![key] =
                         RedisString(f64_to_string(adjustment), NoDuration,
                                     NoHandle)],
                    ts, bulk_string(f64_to_string(adjustment)), <<>>)

\* Database::remove, as the expiration task calls it: whatever the key holds goes
remove(d, key) == [d EXCEPT ![key] = NoItem]

---------------------------------------------------------------------------
(* Stream engine: Database::add_stream *)

XAddCommand(stream_key, ms_time, sequence_number, data) ==
    [stream_key |-> stream_key, ms_time |-> ms_time,
     sequence_number |-> sequence_number, data |-> data]

\* transmission::XAddTransmission, as broadcast_xadd sends it
XAddTransmission(key, ms_time, sequence_number, data) ==
    [key |-> key, ms |-> ms_time, seq |-> sequence_number, data |-> data]

determine_sequence_number(num, ms_time, latest_inner) ==
    IF ~num.auto
    THEN num.val
    ELSE LET sequence_number == IF latest_inner.ms < ms_time THEN 0 ELSE 1
         IN IF sequence_number = 0 /\ ms_time = 0 THEN 1 ELSE sequence_number

\* A faulty ordering check: an id equal to the latest entry's passes
is_okay_allowing_equal(ms_time, sequence_number, latest_inner) ==
    CASE ms_time < latest_inner.ms -> FALSE
      [] ms_time = latest_inner.ms -> sequence_number >= latest_inner.seq
      [] OTHER -> TRUE

\* add_stream's ordering check: the new id must be greater than the latest entry's
is_okay(ms_time, sequence_number, latest_inner) ==
    CASE ms_time < latest_inner.ms -> FALSE
      [] ms_time = latest_inner.ms -> sequence_number > latest_inner.seq
      [] OTHER -> TRUE

\* t is the wall clock (current_unix_timestamp, milliseconds)
add_stream(d, ts, t, command) ==
    LET ms_time == IF command.ms_time.auto THEN t ELSE command.ms_time.val
        item == d[command.stream_key]
    IN
    CASE item.kind = "none" ->
           LET sequence_number ==
                   IF command.sequence_number.auto
                   THEN (IF ms_time = 0 THEN 1 ELSE 0)
                   ELSE command.sequence_number.val
               inner == InnerRedisStream(ms_time, sequence_number, command.data)
           IN IF ms_time = 0 /\ sequence_number = 0
              THEN Result(d, ts, error_string(XaddZeroError))
              ELSE Inserted([d EXCEPT ![command.stream_key] = RedisStream(<<inner>>)],
                            ts, stream_id_string(ms_time, sequence_number),
                            <<XAddTransmission(command.stream_key, ms_time,
                                               sequence_number, command.data)>>)
      [] item.kind = "stream" ->
           LET latest_inner == item.entries[Len(item.entries)]
               sequence_number ==
                   determine_sequence_number(command.sequence_number, ms_time,
                                             latest_inner)
               inner == InnerRedisStream(ms_time, sequence_number, command.data)
           IN IF ms_time = 0 /\ sequence_number = 0
              THEN Result(d, ts, error_string(XaddZeroError))
              ELSE IF ~is_okay(ms_time, sequence_number, latest_inner)
              THEN Result(d, ts, error_string(XaddSmallerError))
              ELSE [db |-> [d EXCEPT ![command.stream_key] =
                                 RedisStream(Append(item.entries, inner))],
                    tasks |-> ts,
                    reply |-> stream_id_string(ms_time, sequence_number),
                    events |-> <<XAddTransmission(command.stream_key, ms_time,
                                                  sequence_number, command.data)>>,
                    inserted |-> FALSE]
      [] OTHER -> Result(d, ts, error_string(wrong_type_str))

---------------------------------------------------------------------------
(* Stream engine: XRANGE and the XREAD that does not block *)

\* A command function returned Err and handle_stream returns it with `?`:
\* nothing is written to the connection, and the connection is dropped
Err(e) == [t |-> "Err", v |-> e]

\* request::XRangeNumber and request::XReadNumber
Unspecified == [kind |-> "Unspecified"]
Specified(ms_time, sequence_number) ==
    [kind |-> "Specified", ms |-> ms_time, seq |-> sequence_number]
AllNewEntries == [kind |-> "AllNewEntries"]

\* request::XReadCommandStream
XReadCommandStream(key, start) == [key |-> key, start |-> start]

ReadStreamItem(streams, key) == [key |-> key, streams |-> streams]

\* encoding::encode_stream: the array of the entries, each an id with its fields
encode_stream(stream) == [t |-> "stream", entries |-> stream]

\* encoding::encode_streams: the array of [key, encode_stream(entries)] pairs
encode_streams(read_streams) == [t |-> "streams", streams |-> read_streams]

\* A faulty loop: the entry with the id `end` itself is already past the end
RECURSIVE xrange_entries_before_end(_, _, _, _, _)
xrange_entries_before_end(entries, i, has_started, start, end) ==
    IF i > Len(entries)
    THEN <<>>
    ELSE LET entry == entries[i]
             before == /\ ~has_started
                       /\ start.kind = "Specified"
                       /\ \/ entry.ms < start.ms
                          \/ (entry.ms = start.ms /\ entry.seq < start.seq)
             past == /\ end.kind = "Specified"
                     /\ \/ entry.ms > end.ms
                        \/ (entry.ms = end.ms /\ entry.seq >= end.seq)
         IN IF before
            THEN xrange_entries_before_end(entries, i + 1, FALSE, start, end)
            ELSE IF past
            THEN <<>>
            ELSE <<entry>> \o xrange_entries_before_end(entries, i + 1, TRUE,
                                                        start, end)

\* The loop of read_from_stream from entry i on: entries before `start` are
\* skipped until one is not, and the loop breaks at the first entry past `end`
RECURSIVE xrange_entries(_, _, _, _, _)
xrange_entries(entries, i, has_started, start, end) ==
    IF i > Len(entries)
    THEN <<>>
    ELSE LET entry == entries[i]
             before == /\ ~has_started
                       /\ start.kind = "Specified"
                       /\ \/ entry.ms < start.ms
                          \/ (entry.ms = start.ms /\ entry.seq < start.seq)
             past == /\ end.kind = "Specified"
                     /\ \/ entry.ms > end.ms
                        \/ (entry.ms = end.ms /\ entry.seq > end.seq)
         IN IF before
            THEN xrange_entries(entries, i + 1, FALSE, start, end)
            ELSE IF past
            THEN <<>>
            ELSE <<entry>> \o xrange_entries(entries, i + 1, TRUE, start, end)

\* Database::read_from_stream + commands::get_stream_range (XRANGE)
read_from_stream(d, ts, key, start, end) ==
    LET item == d[key] IN
    CASE item.kind = "none" -> Result(d, ts, empty_string)
      [] item.kind = "string" -> Result(d, ts, Err(wrong_type_str))
      [] OTHER -> Result(d, ts, encode_stream(
                                    xrange_entries(item.entries, 1, FALSE, start, end)))

\* A faulty comparison: an entry with the id `start` itself passes
stream_entry_not_before_start(entry_ms_time, entry_sequence_number, start) ==
    CASE start.kind = "AllNewEntries" -> TRUE
      [] entry_ms_time < start.ms -> FALSE
      [] entry_ms_time = start.ms /\ entry_sequence_number < start.seq -> FALSE
      [] OTHER -> TRUE

stream_entry_greater_than_start(entry_ms_time, entry_sequence_number, start) ==
    CASE start.kind = "AllNewEntries" -> TRUE
      [] entry_ms_time < start.ms -> FALSE
      [] entry_ms_time = start.ms /\ entry_sequence_number <= start.seq -> FALSE
      [] OTHER -> TRUE

\* The inner loop of read_streams_sync from entry i on
RECURSIVE read_entries(_, _, _, _)
read_entries(entries, i, has_started, start) ==
    IF i > Len(entries)
    THEN <<>>
    ELSE LET started == \/ has_started
                        \/ stream_entry_greater_than_start(entries[i].ms,
                                                           entries[i].seq, start)
         IN IF started
            THEN <<entries[i]>> \o read_entries(entries, i + 1, TRUE, start)
            ELSE read_entries(entries, i + 1, FALSE, start)

\* The outer loop of read_streams_sync from requested stream i on: an absent key
\* is passed over, a key of another kind ends the call with an error
RECURSIVE read_streams_loop(_, _, _, _)
read_streams_loop(d, read_command_streams, i, streams) ==
    IF i > Len(read_command_streams)
    THEN [ok |-> TRUE, streams |-> streams]
    ELSE LET command_stream == read_command_streams[i]
             item == d[command_stream.key]
         IN CASE item.kind = "stream" ->
                   read_streams_loop(d, read_command_streams, i + 1,
                       Append(streams,
                              ReadStreamItem(read_entries(item.entries, 1, FALSE,
                                                          command_stream.start),
                                             command_stream.key)))
              [] item.kind = "none" ->
                   read_streams_loop(d, read_command_streams, i + 1, streams)
              [] OTHER -> [ok |-> FALSE, streams |-> <<>>]

\* read_streams_sync + Database::read_from_streams + commands::read_streams
\* (XREAD without BLOCK)
read_streams_sync(d, ts, read_command_streams) ==
    LET r == read_streams_loop(d, read_command_streams, 1, <<>>) IN
    IF ~r.ok
    THEN Result(d, ts, Err(wrong_type_str))
    ELSE IF r.streams = <<>>
    THEN Result(d, ts, empty_string)
    ELSE Result(d, ts, encode_streams(r.streams))

---------------------------------------------------------------------------
(* Connections and replication: src/src/stream.rs, src/src/server.rs *)

\* request::Command, by variant name
Request(op, key, value) == [op |-> op, key |-> key, value |-> value]

\* The words of the RESP array a client sends for a request
Words(request) ==
    CASE request.op = "Ping" -> <<"PING">>
      [] request.op = "Get" -> <<"GET", request.key>>
      [] request.op = "Set" -> <<"SET", request.key, request.value>>
      [] request.op = "Del" -> <<"DEL", request.key>>
      [] request.op = "GetDel" -> <<"GETDEL", request.key>>
      [] request.op = "ReplConf" -> <<"REPLCONF", request.key, request.value>>
      [] OTHER -> <<"PSYNC", "?", "-1">>

\* usize::to_string().len()
Digits(n) == IF n < 10 THEN 1 ELSE IF n < 100 THEN 2 ELSE 3

\* The bytes of the bulk strings "$<len>\r\n<word>\r\n" of a RESP array
RECURSIVE BulkBytes(_)
BulkBytes(words) ==
    IF words = <<>>
    THEN 0
    ELSE 1 + Digits(Len(Head(words))) + 2 + Len(Head(words)) + 2
            + BulkBytes(Tail(words))

\* command.len(): "*<n>\r\n" and the bulk strings
CommandLen(request) ==
    1 + Digits(Len(Words(request))) + 2 + BulkBytes(Words(request))

\* utils::read_frame: bytes_processed adds up every line read, with its "\r\n"
bytes_processed(request) ==
    (1 + Digits(Len(Words(request))) + 2) + BulkBytes(Words(request))

\* handle_stream's classification of the request it has parsed
command_type(request) ==
    CASE request.op \in {"Get", "Set"} -> "ToReplicate"
      [] request.op = "Psync" -> "Psync"
      [] OTHER -> "Other"

\* handle_stream suspended in stream.read
Reading == [pc |-> "read"]
\* handle_stream has run the command and is writing the reply
Writing(request, n) ==
    [pc |-> "write", request |-> request, command_type |-> command_type(request),
     n |-> n]
\* handle_stream has returned
Returned == [pc |-> "returned"]
\* The peer of a stream kept in the Master's list has closed it
Closed == [pc |-> "closed"]

Master(streams, byte_offset, num_sets) ==
    [streams |-> streams, byte_offset |-> byte_offset, num_sets |-> num_sets]

Replica(d, ts, read, bytes_received) ==
    [db |-> d, tasks |-> ts, read |-> read, bytes_received |-> bytes_received]

\* The range of a sequence
Range(seq) == {seq[i] : i \in 1..Len(seq)}

fullresync == [t |-> "simple", v |-> "FULLRESYNC"]
pong == [t |-> "simple", v |-> "PONG"]

\* The dispatch in handle_stream: the command runs against the store
dispatch(d, ts, t, request) ==
    CASE request.op = "Ping" -> Result(d, ts, pong)
      [] request.op = "Get" -> get_value(d, ts, request.key)
      [] request.op = "Set" ->
             set_value(d, ts, t, request.key, request.value, FALSE, "Normal",
                       ExpNone)
      [] request.op = "Del" -> remove_multiple(d, ts, <<request.key>>)
      [] request.op = "GetDel" -> get_remove(d, ts, request.key)
      [] OTHER -> Result(d, ts, fullresync)

\* The match in handle_replica_stream: GET and SET run, the rest is skipped
replica_dispatch(d, ts, t, request) ==
    CASE request.op = "Get" -> get_value(d, ts, request.key)
      [] request.op = "Set" ->
             set_value(d, ts, t, request.key, request.value, FALSE, "Normal",
                       ExpNone)
      [] OTHER -> Result(d, ts, okay_string)

\* RedisServer::replicate_command on a Master: the counters
replicate_command(m, request) ==
    Master(m.streams, m.byte_offset + CommandLen(request),
           IF request.op = "Set" THEN 1 ELSE m.num_sets)

\* RedisServer::add_stream on a Master
server_add_stream(m, stream) ==
    Master(Append(m.streams, stream), m.byte_offset, m.num_sets)

---------------------------------------------------------------------------
(* Parsing a frame: src/src/request.rs.  A frame is modelled by the words of
   its RESP array, in upper case *)

Ok(v) == [t |-> "Ok", v |-> v]

\* The naturals the model's frames spell
NatRange == 0..MaxTime

\* str::parse::<u64>() (and ::<usize>(), ::<u128>()) failing
NotANumber == 0 - 1

\* str::parse::<u64>(): the natural the text spells, if it spells one
parse_u64(text) ==
    IF \E n \in NatRange : ToString(n) = text
    THEN CHOOSE n \in NatRange : ToString(n) = text
    ELSE NotANumber

\* request::Command, a variant and what it carries
Command(op, body) == [op |-> op, body |-> body]

SetCommand(key, value, get_old_value, overwrite, expires) ==
    [key |-> key, value |-> value, get_old_value |-> get_old_value,
     overwrite |-> overwrite, expires |-> expires]

XRangeCommand(key, start, end) == [key |-> key, start |-> start, end |-> end]

parse_expiry(amount, multiplier) ==
    IF parse_u64(amount) = NotANumber
    THEN Err(not_an_integer)
    ELSE Ok(parse_u64(amount) * multiplier)

\* t is current_unix_timestamp()
parse_expiry_at(time, multiplier, t) ==
    IF parse_u64(time) = NotANumber
    THEN Err(not_an_integer)
    ELSE IF parse_u64(time) * multiplier < t
    THEN Err("ERR time is in the past")
    ELSE Ok(parse_u64(time) * multiplier - t)

\* The option loop of parse_set from word i of the body on
RECURSIVE parse_set_options(_, _, _, _)
parse_set_options(body, i, command, t) ==
    IF i > Len(body)
    THEN Ok(Command("Set", command))
    ELSE LET item == body[i]
             timed == IF item \in {"EX", "PX"}
                      THEN parse_expiry(body[i + 1],
                                        IF item = "EX" THEN 1000 ELSE 1)
                      ELSE parse_expiry_at(body[i + 1],
                                           IF item = "EXAT" THEN 1000 ELSE 1, t)
         IN CASE item = "XX" ->
                   parse_set_options(body, i + 1,
                       [command EXCEPT !.overwrite = "OnlyOverwrite"], t)
              [] item = "NX" ->
                   parse_set_options(body, i + 1,
                       [command EXCEPT !.overwrite = "NeverOverwrite"], t)
              [] item = "GET" ->
                   parse_set_options(body, i + 1,
                       [command EXCEPT !.get_old_value = TRUE], t)
              [] item = "KEEPTTL" ->
                   parse_set_options(body, i + 1,
                       [command EXCEPT !.expires = ExpOther], t)
              [] item \in {"EX", "PX", "EXAT", "PXAT"} ->
                   IF i + 1 > Len(body)
                   THEN Err("Missing amount")
                   ELSE IF timed.t = "Err"
                   THEN timed
                   ELSE parse_set_options(body, i + 2,
                            [command EXCEPT !.expires = Expiry(timed.v)], t)
              [] OTHER -> Err("unknown option")

parse_set(body, t) ==
    IF Len(body) < 1
    THEN Err("Missing key")
    ELSE IF Len(body) < 2
    THEN Err("Missing value")
    ELSE parse_set_options(body, 3,
             SetCommand(body[1], body[2], FALSE, "Normal", ExpNone), t)

parse_get(body) ==
    IF Len(body) < 1
    THEN Err("ERR missing key for GET command")
    ELSE Ok(Command("Get", body[1]))

\* get_stream_id: "*", "<ms>-*" and "<ms>-<seq>" are ids, nothing else is
get_stream_id(stream_id) ==
    IF stream_id = "*"
    THEN Ok(<<Autogenerate, Autogenerate>>)
    ELSE IF \E ms \in NatRange : stream_id = ToString(ms) \o "-*"
    THEN Ok(<<Predetermined(CHOOSE ms \in NatRange :
                                stream_id = ToString(ms) \o "-*"),
              Autogenerate>>)
    ELSE IF \E ms \in NatRange, seq \in NatRange :
                stream_id = ToString(ms) \o "-" \o ToString(seq)
    THEN LET id == CHOOSE id \in NatRange \X NatRange :
                       stream_id = ToString(id[1]) \o "-" \o ToString(id[2])
         IN Ok(<<Predetermined(id[1]), Predetermined(id[2])>>)
    ELSE Err("ERR Stream ID format not recognized")

\* A field without its value makes data[1] panic: the handler's task ends there,
\* which a client cannot tell from the handler returning Err
parse_xadd(body) ==
    IF Len(body) < 1
    THEN Err("usage xadd <key> [entry_id] [...key value]")
    ELSE IF Len(body) < 2
    THEN Err("ERR Stream ID format not recognized")
    ELSE IF get_stream_id(body[2]).t = "Err"
    THEN get_stream_id(body[2])
    ELSE IF Len(body) % 2 = 1
    THEN Err("index out of bounds")
    ELSE Ok(Command("Xadd",
                    XAddCommand(body[1], get_stream_id(body[2]).v[1],
                                get_stream_id(body[2]).v[2],
                                SubSeq(body, 3, Len(body)))))

\* parse_xadd_specified_number: "<ms>-<seq>", or "<ms>" for <ms>-0
parse_xadd_specified_number(nums) ==
    IF \E ms \in NatRange, seq \in NatRange :
           nums = ToString(ms) \o "-" \o ToString(seq)
    THEN LET id == CHOOSE id \in NatRange \X NatRange :
                       nums = ToString(id[1]) \o "-" \o ToString(id[2])
         IN Ok(Specified(id[1], id[2]))
    ELSE IF parse_u64(nums) # NotANumber
    THEN Ok(Specified(parse_u64(nums), 0))
    ELSE Err("invalid digit found in string")

parse_xrange(body) ==
    LET start == IF body[2] = "-" THEN Ok(Unspecified)
                 ELSE parse_xadd_specified_number(body[2])
        end == IF body[3] = "+" THEN Ok(Unspecified)
               ELSE parse_xadd_specified_number(body[3])
    IN IF Len(body) < 3
       THEN Err("usage xrange <key> <start> <end>")
       ELSE IF start.t = "Err"
       THEN start
       ELSE IF end.t = "Err"
       THEN end
       ELSE Ok(Command("Xrange", XRangeCommand(body[1], start.v, end.v)))

\* Command::new, for the routes the model sends
Command_new(route, body, t) ==
    CASE route = "SET" -> parse_set(body, t)
      [] route = "GET" -> parse_get(body)
      [] route = "XADD" -> parse_xadd(body)
      [] route = "XRANGE" -> parse_xrange(body)
      [] OTHER -> Err("unknown command")

parse_request(raw_request, t) ==
    IF Len(raw_request) < 1
    THEN Err("missing route")
    ELSE Command_new(Head(raw_request), Tail(raw_request), t)

\* The dispatch in handle_stream over a parsed request::Command
command_responses(d, ts, t, request) ==
    CASE request.op = "Get" -> get_value(d, ts, request.body)
      [] request.op = "Set" ->
             set_value(d, ts, t, request.body.key, request.body.value,
                       request.body.get_old_value, request.body.overwrite,
                       request.body.expires)
      [] request.op = "Xadd" -> add_stream(d, ts, t, request.body)
      [] OTHER -> read_from_stream(d, ts, request.body.key, request.body.start,
                                   request.body.end)

\* RedisServer::replicate_command on a Master that parses the frame again
replicate_frame(m, raw_request, request) ==
    Master(m.streams,
           m.byte_offset + 1 + Digits(Len(raw_request)) + 2 + BulkBytes(raw_request),
           IF request.op = "Set" THEN 1 ELSE m.num_sets)

---------------------------------------------------------------------------
(* The storage engine as a state machine *)

Expirations == {ExpNone, ExpOther} \cup {Expiry(dur) : dur \in Durations}

\* DEL key [key ...]: the key lists tried
KeyLists(ks) == {<<k>> : k \in ks} \cup {<<k1, k2>> : k1 \in ks, k2 \in ks}

NoArgs == [none |-> TRUE]

\* What a command step leaves in `last`
Obs(op, key, args, r) ==
    [op |-> op, key |-> key, args |-> args, at |-> now,
     reply |-> r.reply, sent |-> r.events, inserted |-> r.inserted,
     pre |-> db[key], preDb |-> db,
     preWake |-> IF db[key].kind = "string"
                 THEN WakeOf(tasks, db[key].handle) ELSE NoDuration]

\* The tasks of `key` that an insert under `key` leaves behind it
LeftBehind(r, key) ==
    {t.id : t \in {u \in r.tasks :
                     /\ u.key = key
                     /\ ~(r.db[key].kind = "string" /\ r.db[key].handle = u.id)}}

NoPending == [set |-> FALSE]

\* The keys a command names, the reads of GET, XRANGE and XREAD aside
Touched(op, key, args) ==
    CASE op \in {"GET", "XRANGE", "XREAD"} -> {}
      [] op = "DEL" -> Range(args.keys)
      [] OTHER -> {key}

\* One command, run under the store's write lock: the store after it
CommitStore(op, key, args, r) ==
    /\ Cardinality(r.tasks) <= MaxTasks
    /\ db' = r.db
    /\ tasks' = r.tasks
    /\ superseded' = ({t.id : t \in (r.tasks \cap tasks)} \cap superseded)
                        \cup (IF r.inserted THEN LeftBehind(r, key) ELSE {})
    /\ pending' = [k \in Keys |->
                      CASE k \notin Touched(op, key, args) -> pending[k]
                        [] /\ op = "SET"
                           /\ r.inserted
                           /\ args.expires.kind \in {"Expiry", "None"} ->
                               [set |-> TRUE, value |-> args.value,
                                deadline |-> IF args.expires.kind = "Expiry"
                                             THEN now + args.expires.dur
                                             ELSE NoDuration]
                        [] OTHER -> NoPending]
    /\ UNCHANGED now

\* One command against the store, no connection looked at
Commit(op, key, args, r) ==
    /\ CommitStore(op, key, args, r)
    /\ last' = Obs(op, key, args, r)
    /\ UNCHANGED replVars

InitStore ==
    /\ now = 1
    /\ db = [k \in Keys |-> NoItem]
    /\ tasks = {}
    /\ superseded = {}
    /\ pending = [k \in Keys |-> NoPending]
    /\ last = [op |-> "Init"]

\* sync_to_master at the await `pc`, having written `written` to the
\* connection and read `replies` from it
Syncing(pc, written, replies) ==
    [pc |-> pc, written |-> written, replies |-> replies, spawned |-> FALSE]

\* sync_to_master has bailed out: get_role returns the Err and no task is spawned
SyncFailed(written, replies) ==
    [pc |-> "failed", written |-> written, replies |-> replies, spawned |-> FALSE]

\* sync_to_master has read the answer to PSYNC and is reading the snapshot
Resynced(written, replies, id, offset) ==
    [pc |-> "snapshot", written |-> written, replies |-> replies,
     spawned |-> FALSE, id |-> id, offset |-> offset]

\* sync_to_master has spawned handle_replica_stream and returned
\* Ok((Replication { id, offset }, ServerRole::Slave))
Synced(written, replies, id, offset) ==
    [pc |-> "synced", written |-> written, replies |-> replies, spawned |-> TRUE,
     id |-> id, offset |-> offset]

\* ServerRole::Master(vec![], 0, 0), no connection has sent anything yet
InitRepl ==
    /\ conns = [c \in Conns |-> Reading]
    /\ master = Master(<<>>, 0, 0)
    /\ wire = [c \in Conns |-> <<>>]
    /\ replicas = [c \in Conns |-> Replica([k \in Keys |-> NoItem], {}, 0, 0)]
    /\ executed = 0
    /\ attachedInSync = {}
    /\ sync = Syncing("connect", <<>>, <<>>)

Init == InitStore /\ InitRepl

\* Time passes
Tick ==
    /\ now < MaxTime
    /\ now' = now + 1
    /\ last' = [op |-> "Tick"]
    /\ UNCHANGED <<db, tasks, superseded, pending>>
    /\ UNCHANGED replVars

\* sleep(dur).await returns: the runtime polls the task once its deadline is
\* reached, and the task goes on to database.remove(&key)
TaskWake(t) ==
    /\ t.st = "sleeping"
    /\ now >= t.wake
    /\ tasks' = (tasks \ {t}) \cup {[t EXCEPT !.st = "running"]}
    /\ last' = [op |-> "TaskWake", task |-> t]
    /\ UNCHANGED <<now, db, superseded, pending>>
    /\ UNCHANGED replVars

\* database.remove(&key) in the task: it takes the write lock and removes the key
TaskRemove(t) ==
    /\ t.st = "running"
    /\ db' = remove(db, t.key)
    /\ tasks' = tasks \ {t}
    /\ superseded' = superseded \ {t.id}
    /\ last' = [op |-> "TaskRemove", task |-> t, pre |-> db[t.key],
                stale |-> t.id \in superseded]
    /\ UNCHANGED <<now, pending>>
    /\ UNCHANGED replVars

GetValue(key) ==
    Commit("GET", key, NoArgs, get_value(db, tasks, key))

SetValue(key, value, return_old_value, overwrites, expires) ==
    Commit("SET", key,
           [value |-> value, get |-> return_old_value,
            overwrites |-> overwrites, expires |-> expires],
           set_value(db, tasks, now, key, value, return_old_value, overwrites,
                     expires))

UpdateExpiration(key, expiration) ==
    Commit("GETEX", key, [expires |-> expiration],
           update_expiration(db, tasks, now, key, expiration))

GetRemove(key) ==
    Commit("GETDEL", key, NoArgs, get_remove(db, tasks, key))

RemoveMultiple(keys) ==
    Commit("DEL", keys[1], [keys |-> keys], remove_multiple(db, tasks, keys))

\* INCR and DECR; the model keeps the fractions it stores within HalfRange
AdjustValueByInt(key, adjustment) ==
    /\ (db[key].kind = "string" /\ parse_f64(db[key].data) # NotAFloat) =>
           (parse_f64(db[key].data) + 2 * adjustment) \in HalfRange
    /\ Commit("INCR", key, [adjustment |-> adjustment],
              adjust_value_by_int(db, tasks, key, adjustment))

AddStream(command) ==
    Commit("XADD", command.stream_key,
           [ms_time |-> command.ms_time,
            sequence_number |-> command.sequence_number, data |-> command.data],
           add_stream(db, tasks, now, command))

NextStore ==
    \/ Tick
    \/ \E t \in tasks : TaskWake(t)
    \/ \E t \in tasks : TaskRemove(t)
    \/ \E key \in StoreKeys : GetValue(key)
    \/ \E key \in StoreKeys, value \in Values, return_old_value \in BOOLEAN,
          overwrites \in SetOverride, expires \in Expirations :
            SetValue(key, value, return_old_value, overwrites, expires)
    \/ \E key \in StoreKeys, expiration \in Expirations :
            UpdateExpiration(key, expiration)
    \/ \E key \in StoreKeys : GetRemove(key)
    \/ \E keys \in KeyLists(StoreKeys) : RemoveMultiple(keys)
    \/ \E key \in StoreKeys :
            AddStream(XAddCommand(key, Predetermined(1), Autogenerate, "f"))
    \/ \E key \in StoreKeys, adjustment \in {1, 0 - 1} :
            AdjustValueByInt(key, adjustment)

SpecStore == Init /\ [][NextStore]_vars

\* INCRBYFLOAT key <halves / 2>; the model keeps the numbers it stores within
\* HalfRange
AdjustValueByFloat(key, adjustment) ==
    /\ LET halves == IF db[key].kind # "string" THEN adjustment
                     ELSE IF has_dot(db[key].data) THEN parse_f64(db[key].data)
                     ELSE IF parse_i64(db[key].data) = NotAnInteger THEN NotAFloat
                     ELSE 2 * parse_i64(db[key].data)
       IN halves # NotAFloat =>
              (halves + (IF db[key].kind = "string" THEN adjustment ELSE 0))
                  \in HalfRange
    /\ Commit("INCRBYFLOAT", key, [adjustment |-> adjustment],
              adjust_value_by_float(db, tasks, key, adjustment))

\* INCR and DECR over what SET, INCRBYFLOAT and XADD leave under a key
NextIncr ==
    \/ \E key \in StoreKeys, value \in {"a", "a.b", "0"} :
            SetValue(key, value, FALSE, "Normal", ExpNone)
    \/ \E key \in StoreKeys, adjustment \in {1, 0 - 1} :
            AdjustValueByInt(key, adjustment)
    \/ \E key \in StoreKeys, adjustment \in {1, 2, 0 - 1} :
            AdjustValueByFloat(key, adjustment)
    \/ \E key \in StoreKeys : GetValue(key)
    \/ \E key \in StoreKeys :
            AddStream(XAddCommand(key, Predetermined(1), Autogenerate, "f"))
    \/ \E keys \in KeyLists(StoreKeys) : RemoveMultiple(keys)

SpecIncr == Init /\ [][NextIncr]_vars

\* INCRBY key amount
IncrBy(key, amount) ==
    Commit("INCRBY", key, [amount |-> amount],
           adjust_value_by_int(db, tasks, key, amount))

\* The handler's task has panicked: nothing is written back
panicked == [t |-> "panic"]

\* DECRBY key amount: the dispatch passes `-amount`, which for i64::MIN panics
\* in a build with overflow checks and is i64::MIN again in one without
DecrBy(key, amount, overflow_checks) ==
    IF amount = i64_MIN
    THEN IF overflow_checks
         THEN Commit("DECRBY", key, [amount |-> amount],
                     Result(db, tasks, panicked))
         ELSE Commit("DECRBY", key, [amount |-> amount],
                     adjust_value_by_int(db, tasks, key, i64_MIN))
    ELSE /\ overflow_checks
         /\ Commit("DECRBY", key, [amount |-> amount],
                   adjust_value_by_int(db, tasks, key, 0 - amount))

\* INCRBY and DECRBY with every amount an i64 holds
NextIncrBy ==
    \/ \E key \in Keys, value \in {"a", "0"} :
            SetValue(key, value, FALSE, "Normal", ExpNone)
    \/ \E key \in Keys, amount \in IntRange : IncrBy(key, amount)
    \/ \E key \in Keys, amount \in IntRange, overflow_checks \in BOOLEAN :
            DecrBy(key, amount, overflow_checks)
    \/ \E key \in Keys : GetValue(key)
    \/ \E keys \in KeyLists(Keys) : RemoveMultiple(keys)

SpecIncrBy == Init /\ [][NextIncrBy]_vars

\* DEL over both keys, holding strings (with and without a deletion task) and
\* streams
NextDel ==
    \/ \E key \in Keys, expires \in {ExpNone, Expiry(1)} :
            SetValue(key, "a", FALSE, "Normal", expires)
    \/ \E key \in Keys :
            AddStream(XAddCommand(key, Predetermined(1), Autogenerate, "f"))
    \/ \E keys \in KeyLists(Keys) : RemoveMultiple(keys)
    \/ \E key \in Keys : GetValue(key)

SpecDel == Init /\ [][NextDel]_vars

\* The runtime polls a task whose sleep is over, a task blocked on the store
\* lock gets it once the command holding it returns, and time goes on
FairStore ==
    /\ WF_vars(Tick)
    /\ WF_vars(\E t \in tasks : TaskWake(t))
    /\ WF_vars(\E t \in tasks : TaskRemove(t))

SpecStoreLive == SpecStore /\ FairStore

---------------------------------------------------------------------------
(* The store loaded from a snapshot file: src/src/data/rdb.rs *)

\* A key and string value of the file, with the unix time of its expire-at
\* opcode (NoDuration when it has none)
Entry(key, value, expire_time) ==
    [key |-> key, value |-> value, expire_time |-> expire_time]

\* duration_to_item_expiration: expire_time.checked_sub(now)
duration_to_item_expiration(expire_time_unix_timestamp, t) ==
    IF expire_time_unix_timestamp >= t
    THEN expire_time_unix_timestamp - t
    ELSE NoDuration

\* create_database_from_version_x: the loop over the file's opcodes, from
\* entry i on.  An entry without expire-at is read by read_key_value_pair and
\* stored by set_item; one with expire-at is read by read_expirable_item, and
\* stored by set_item unless its time is past.  set_item inserts and no more.
RECURSIVE create_database_from_version_x(_, _, _, _)
create_database_from_version_x(d, entries, i, t) ==
    IF i > Len(entries)
    THEN d
    ELSE LET e == entries[i]
             item_expiration == duration_to_item_expiration(e.expire_time, t)
             item == RedisString(e.value,
                                 IF e.expire_time = NoDuration
                                 THEN NoDuration ELSE item_expiration,
                                 NoHandle)
         IN create_database_from_version_x(
                IF e.expire_time # NoDuration /\ item_expiration = NoDuration
                THEN d
                ELSE [d EXCEPT ![e.key] = item],
                entries, i + 1, t)

\* The snapshot files tried: up to two entries
FileEntries ==
    {Entry(key, "a", expire_time) :
        key \in Keys, expire_time \in {NoDuration} \cup (0..MaxTime)}
Files ==
    {<<>>} \cup {<<e>> : e \in FileEntries}
        \cup {<<e, f>> : e \in FileEntries, f \in FileEntries}

\* Database::from_config at time 1, before any connection is accepted
InitLoad ==
    /\ now = 1
    /\ \E contents \in Files :
           db = create_database_from_version_x([k \in Keys |-> NoItem], contents, 1, 1)
    /\ tasks = {}
    /\ superseded = {}
    /\ pending = [k \in Keys |-> NoPending]
    /\ last = [op |-> "Init"]
    /\ InitRepl

NextLoad ==
    \/ Tick
    \/ \E t \in tasks : TaskWake(t)
    \/ \E t \in tasks : TaskRemove(t)
    \/ \E key \in StoreKeys : GetValue(key)
    \/ \E key \in StoreKeys, expires \in Expirations \ {ExpOther} :
            SetValue(key, "b", FALSE, "Normal", expires)

SpecLoad == InitLoad /\ [][NextLoad]_vars

---------------------------------------------------------------------------
(* The stream engine as a state machine *)

\* get_stream_id (src/src/request.rs): "*" is (auto, auto), "ms-*" and "ms-seq"
\* have a literal millisecond part
StreamIds ==
    {<<Autogenerate, Autogenerate>>}
        \cup {<<Predetermined(ms), Autogenerate>> : ms \in 0..MaxMs}
        \cup {<<Predetermined(ms), Predetermined(seq)>> :
                  ms \in 0..MaxMs, seq \in 0..MaxSeq}

\* The model stops appending to a stream of MaxEntries entries
HasRoom(key) ==
    db[key].kind = "stream" => Len(db[key].entries) < MaxEntries

XAdd(key, id, data) ==
    /\ HasRoom(key)
    /\ AddStream(XAddCommand(key, id[1], id[2], data))

NextStream ==
    \/ Tick
    \/ \E key \in StoreKeys, id \in StreamIds : XAdd(key, id, "f")
    \/ \E key \in StoreKeys : RemoveMultiple(<<key>>)
    \/ \E key \in StoreKeys, overwrites \in SetOverride :
            SetValue(key, "a", FALSE, overwrites, ExpNone)

SpecStream == Init /\ [][NextStream]_vars

\* Only XADD key * ..., under a clock that never goes back
NextAutoId ==
    \/ Tick
    \/ \E key \in StoreKeys, data \in FieldLists :
            XAdd(key, <<Autogenerate, Autogenerate>>, data)

SpecAutoId == Init /\ [][NextAutoId]_vars

---------------------------------------------------------------------------
(* Strings and streams under the reading commands, as a state machine *)

GetStreamRange(key, start, end) ==
    Commit("XRANGE", key, [start |-> start, end |-> end],
           read_from_stream(db, tasks, key, start, end))

ReadStreams(read_command_streams) ==
    Commit("XREAD", read_command_streams[1].key,
           [streams |-> read_command_streams],
           read_streams_sync(db, tasks, read_command_streams))

\* XRANGE's bounds: "-", "+" and literal ids
RangeBounds ==
    {Unspecified} \cup {Specified(ms, seq) : ms \in 1..MaxMs, seq \in 0..1}

\* XREAD's `after` ids
ReadStarts == {Specified(ms, seq) : ms \in 0..MaxMs, seq \in 0..1}

\* XREAD STREAMS key [key] id [id]
ReadLists ==
    {<<XReadCommandStream(k, start)>> : k \in Keys, start \in ReadStarts}
        \cup {<<XReadCommandStream("k1", s1), XReadCommandStream("k2", s2)>> :
                  s1 \in ReadStarts, s2 \in ReadStarts}

\* The bounds clients write: "-", "+", a lone <ms> and <ms>-<seq>
BoundTexts == {"-", "+", "1", "2", "1-1", "2-0"}

\* XRANGE key start end as the client writes it: parse_xrange, then the command
XRange(key, start, end) ==
    LET request == parse_xrange(<<key, start, end>>) IN
    /\ request.t = "Ok"
    /\ GetStreamRange(request.v.body.key, request.v.body.start, request.v.body.end)

NextRead ==
    \/ \E key \in Keys, ms \in 1..MaxMs :
            XAdd(key, <<Predetermined(ms), Autogenerate>>, "f")
    \/ \E key \in Keys, return_old_value \in BOOLEAN :
            SetValue(key, "a", return_old_value, "Normal", ExpNone)
    \/ \E key \in Keys : GetValue(key)
    \/ \E key \in Keys : UpdateExpiration(key, ExpNone)
    \/ \E key \in Keys : GetRemove(key)
    \/ \E key \in Keys : RemoveMultiple(<<key>>)
    \/ \E key \in Keys, start \in BoundTexts, end \in BoundTexts :
            XRange(key, start, end)
    \/ \E read_command_streams \in ReadLists : ReadStreams(read_command_streams)

SpecRead == Init /\ [][NextRead]_vars

---------------------------------------------------------------------------
(* The Primary with its connections and replicas as a state machine *)

Requests ==
    {Request("Ping", "", ""), Request("Psync", "", "")}
        \cup {Request(op, key, "") : op \in {"Get", "Del", "GetDel"}, key \in StoreKeys}
        \cup {Request("Set", key, value) : key \in StoreKeys, value \in Values}

\* handle_stream from stream.read to the reply: the request is read, parsed and
\* classified, and the command runs
Execute(c, request) ==
    /\ conns[c].pc = "read"
    /\ executed < MaxCommands
    /\ request.op = "Psync" => Len(master.streams) < MaxReplicas
    /\ LET r == dispatch(db, tasks, now, request) IN
         /\ db' = r.db
         /\ tasks' = r.tasks
    /\ executed' = executed + 1
    /\ conns' = [conns EXCEPT ![c] = Writing(request, executed + 1)]
    /\ UNCHANGED <<now, superseded, pending, last, master, wire, replicas,
                   attachedInSync, sync>>

\* The reply is written; CommandType::Other => continue
Continue(c) ==
    /\ conns[c].pc = "write"
    /\ conns[c].command_type = "Other"
    /\ conns' = [conns EXCEPT ![c] = Reading]
    /\ UNCHANGED <<storeVars, master, wire, replicas, executed, attachedInSync, sync>>

\* The first replica stream, in the order of attachment, whose peer has gone:
\* stream.write_all(command) fails there.  Len + 1 when every peer is there.
FirstFailed(streams) ==
    IF \E i \in 1..Len(streams) : conns[streams[i]].pc = "closed"
    THEN CHOOSE i \in 1..Len(streams) :
             /\ conns[streams[i]].pc = "closed"
             /\ \A j \in 1..(i - 1) : conns[streams[j]].pc # "closed"
    ELSE Len(streams) + 1

\* The reply is written; CommandType::ToReplicate => server.replicate_command:
\* under the server's write lock the frame is counted and written to the replica
\* streams in turn.  A write that fails ends replicate_command with its Err, the
\* streams after it are not written, and handle_stream returns the Err.
ReplicateCommand(c) ==
    /\ conns[c].pc = "write"
    /\ conns[c].command_type = "ToReplicate"
    /\ master' = replicate_command(master, conns[c].request)
    /\ wire' = [s \in Conns |->
                   IF \E i \in 1..(FirstFailed(master.streams) - 1) :
                          master.streams[i] = s
                   THEN Append(wire[s], [request |-> conns[c].request,
                                         n |-> conns[c].n])
                   ELSE wire[s]]
    /\ conns' = [conns EXCEPT ![c] =
                     IF FirstFailed(master.streams) <= Len(master.streams)
                     THEN Returned
                     ELSE Reading]
    /\ UNCHANGED <<storeVars, replicas, executed, attachedInSync, sync>>

\* The reply is written; CommandType::Psync => server.add_stream(stream), return
Attach(c) ==
    /\ conns[c].pc = "write"
    /\ conns[c].command_type = "Psync"
    /\ master' = server_add_stream(master, c)
    /\ conns' = [conns EXCEPT ![c] = Returned]
    /\ attachedInSync' =
           IF /\ \A k \in Keys : db[k] = NoItem
              /\ \A o \in Conns \ {c} : conns[o].pc # "write"
           THEN attachedInSync \cup {c}
           ELSE attachedInSync
    /\ UNCHANGED <<storeVars, wire, replicas, executed, sync>>

\* encoding::encode_string_array
encode_string_array(words) == [t |-> "array", words |-> words]

\* commands::replica_confirm
replica_confirm(repl, size) ==
    IF repl = "Ack"
    THEN <<encode_string_array(<<"REPLCONF", "ACK", ToString(size)>>)>>
    ELSE <<okay_string>>

\* A faulty handler that counts the frame before it answers
replica_responses_counting_itself(request, bytes_received) ==
    CASE request.op = "Wait" -> <<okay_string>>
      [] request.op = "ReplConf" /\ request.key = "GETACK" ->
             replica_confirm("Ack", bytes_received + bytes_processed(request))
      [] OTHER -> <<>>

\* What the match in handle_replica_stream writes back to the Primary:
\* +OK for WAIT, REPLCONF ACK bytes_received for REPLCONF GETACK *, else nothing
replica_responses(request, bytes_received) ==
    CASE request.op = "Wait" -> <<okay_string>>
      [] request.op = "ReplConf" /\ request.key = "GETACK" ->
             replica_confirm("Ack", bytes_received)
      [] OTHER -> <<>>

\* handle_replica_stream: the next frame is read and parsed, GET and SET run
\* against the replica's store, the answer, if the frame has one, is written,
\* and the frame's bytes are counted
ReplicaApply(s) ==
    /\ s \in Range(master.streams)
    /\ replicas[s].read < Len(wire[s])
    /\ LET frame == wire[s][replicas[s].read + 1]
           r == replica_dispatch(replicas[s].db, replicas[s].tasks, now,
                                 frame.request)
       IN /\ replicas' = [replicas EXCEPT ![s] =
                 Replica(r.db, r.tasks, replicas[s].read + 1,
                         replicas[s].bytes_received
                             + bytes_processed(frame.request))]
          /\ last' = [op |-> "ReplicaApply", stream |-> s,
                      request |-> frame.request,
                      written |-> replica_responses(frame.request,
                                                    replicas[s].bytes_received)]
    /\ UNCHANGED <<now, db, tasks, superseded, pending>>
    /\ UNCHANGED <<conns, master, wire, executed, attachedInSync, sync>>

NextRepl ==
    \/ \E c \in Conns, request \in Requests : Execute(c, request)
    \/ \E c \in Conns : Continue(c)
    \/ \E c \in Conns : ReplicateCommand(c)
    \/ \E c \in Conns : Attach(c)
    \/ \E s \in Conns : ReplicaApply(s)

SpecRepl == Init /\ [][NextRepl]_vars

\* A replica goes away: its end of the stream the Master keeps is closed
Disconnect(s) ==
    /\ s \in Range(master.streams)
    /\ conns[s].pc = "returned"
    /\ conns' = [conns EXCEPT ![s] = Closed]
    /\ UNCHANGED <<storeVars, master, wire, replicas, executed, attachedInSync, sync>>

\* The Primary with replicas that may go away
NextFail ==
    \/ NextRepl
    \/ \E s \in Conns : Disconnect(s)

SpecFail == Init /\ [][NextFail]_vars

---------------------------------------------------------------------------
(* A replica attaching while other clients write: the awaits of handle_stream
   between the reply to PSYNC and add_stream *)

\* handle_stream has written the reply to PSYNC, `at` commands having run on
\* the Primary so far, and waits for the server's lock in add_stream
Replied(at) == [pc |-> "replied", at |-> at]

\* write_command_responses(&mut stream, command_responses).await for PSYNC
PsyncReplied(c) ==
    /\ conns[c].pc = "write"
    /\ conns[c].command_type = "Psync"
    /\ conns' = [conns EXCEPT ![c] = Replied(executed)]
    /\ UNCHANGED <<storeVars, master, wire, replicas, executed, attachedInSync, sync>>

\* server.add_stream(stream).await, then return
AttachReplied(c) ==
    /\ conns[c].pc = "replied"
    /\ master' = server_add_stream(master, c)
    /\ conns' = [conns EXCEPT ![c] = Returned]
    /\ attachedInSync' =
           IF /\ \A k \in Keys : db[k] = NoItem
              /\ \A o \in Conns \ {c} : conns[o].pc # "write"
           THEN attachedInSync \cup {c}
           ELSE attachedInSync
    /\ UNCHANGED <<storeVars, wire, replicas, executed, sync>>

NextAttach ==
    \/ \E c \in Conns, request \in Requests : Execute(c, request)
    \/ \E c \in Conns : Continue(c)
    \/ \E c \in Conns : ReplicateCommand(c)
    \/ \E c \in Conns : PsyncReplied(c)
    \/ \E c \in Conns : AttachReplied(c)
    \/ \E s \in Conns : ReplicaApply(s)

SpecAttach == Init /\ [][NextAttach]_vars

---------------------------------------------------------------------------
(* WAIT on the Primary: RedisServer::perform_wait, src/src/server.rs *)

\* encoding::encode_string_array(&["REPLCONF", "GETACK", "*"])
get_ack == Request("ReplConf", "GETACK", "*")

\* perform_wait returning at once for the streams and counters left as they are
wait_returns(m, n) == [t |-> "Ok", v |-> n, master |-> m, sent |-> <<>>, slept |-> 0]

\* The loop of perform_wait over the replica streams from i on.  elapsed_times[i]
\* is what Instant::now() - begin_time gives after the write to streams[i];
\* the stream at `failed` is one whose write_all returns an Err.
RECURSIVE wait_loop(_, _, _, _, _, _, _)
wait_loop(streams, i, elapsed_time, timeout, elapsed_times, failed, sent) ==
    IF i > Len(streams) \/ elapsed_time >= timeout
    THEN [ok |-> TRUE, sent |-> sent, elapsed_time |-> elapsed_time]
    ELSE IF i = failed
    THEN [ok |-> FALSE, sent |-> sent, elapsed_time |-> elapsed_time]
    ELSE wait_loop(streams, i + 1, elapsed_times[i], timeout, elapsed_times,
                   failed, Append(sent, streams[i]))

\* A faulty perform_wait with no early return for num_replicas == 0
perform_wait_always_asking(m, num_replicas, timeout, elapsed_times, failed) ==
    LET loop == wait_loop(m.streams, 1, 0, timeout, elapsed_times, failed, <<>>)
        counted == Master(m.streams, m.byte_offset + CommandLen(get_ack),
                          m.num_sets)
    IN IF ~loop.ok
       THEN [t |-> "Err", master |-> m, sent |-> loop.sent, slept |-> 0]
       ELSE [t |-> "Ok", v |-> Len(m.streams), master |-> counted,
             sent |-> loop.sent,
             slept |-> IF loop.elapsed_time > timeout
                       THEN 0 ELSE timeout - loop.elapsed_time]

\* RedisServer::perform_wait on a Master.  "Ok" carries the number returned,
\* "Err" is the Err of a failed write, "Panic" the Duration subtraction
\* `timeout_as_duration - elapsed_time` overflowing.
perform_wait(m, num_replicas, timeout, elapsed_times, failed) ==
    IF num_replicas = 0
    THEN wait_returns(m, Len(m.streams))
    ELSE LET loop == wait_loop(m.streams, 1, 0, timeout, elapsed_times, failed,
                               <<>>)
             replicas_acknowledged ==
                 CASE m.num_sets = 0 -> Len(m.streams)
                   [] m.num_sets = 1 -> 1
                   [] OTHER -> Len(m.streams) - 1
             counted == Master(m.streams, m.byte_offset + CommandLen(get_ack),
                               m.num_sets)
         IN IF ~loop.ok
            THEN [t |-> "Err", master |-> m, sent |-> loop.sent, slept |-> 0]
            ELSE IF loop.elapsed_time > timeout
            THEN [t |-> "Panic", master |-> counted, sent |-> loop.sent,
                  slept |-> 0]
            ELSE [t |-> "Ok", v |-> replicas_acknowledged, master |-> counted,
                  sent |-> loop.sent, slept |-> timeout - loop.elapsed_time]

\* The readings of the clock after each of n writes
Elapsing(n) ==
    {e \in [1..n -> 0..(MaxWait + 1)] : \A i \in 1..(n - 1) : e[i] <= e[i + 1]}

\* handle_stream reads WAIT num_replicas timeout: commands::transmit_wait calls
\* perform_wait, which holds the server's write lock until it returns, and the
\* number is written back; an Err or a panic ends the handler with no reply
Wait(c, num_replicas, timeout, elapsed_times) ==
    /\ conns[c].pc = "read"
    /\ executed < MaxCommands
    /\ LET r == perform_wait(master, num_replicas, timeout, elapsed_times,
                             FirstFailed(master.streams))
       IN /\ master' = r.master
          /\ wire' = [s \in Conns |->
                         IF s \in Range(r.sent)
                         THEN Append(wire[s], [request |-> get_ack, n |-> 0])
                         ELSE wire[s]]
          /\ conns' = [conns EXCEPT ![c] =
                           IF r.t = "Ok" THEN Reading ELSE Returned]
          /\ last' = [op |-> "WAIT", conn |-> c, num_replicas |-> num_replicas,
                      timeout |-> timeout, result |-> r, pre |-> master,
                      failed |-> FirstFailed(master.streams)]
    /\ executed' = executed + 1
    /\ UNCHANGED <<now, db, tasks, superseded, pending, replicas, attachedInSync, sync>>

NextWait ==
    \/ NextFail
    \/ \E c \in Conns, num_replicas \in 0..1, timeout \in 0..MaxWait :
           \E elapsed_times \in Elapsing(Len(master.streams)) :
               Wait(c, num_replicas, timeout, elapsed_times)

SpecWait == Init /\ [][NextWait]_vars

---------------------------------------------------------------------------
(* WAIT with its sleep: the server's lock over the await points of
   perform_wait *)

\* perform_wait suspended in sleep(time_to_still_wait): the write guard taken
\* by `&mut self.0.write().await.role` lives to the end of the function
Sleeping(v) == [pc |-> "sleep", v |-> v]

\* No task holds the RwLock of the RedisServer
ServerUnlocked == \A c \in Conns : conns[c].pc # "sleep"

\* WAIT up to its sleep: the lock is taken, GETACK is written to the replica
\* streams and counted; with time left of the timeout perform_wait goes to
\* sleep, else it returns and the number is written back
WaitSend(c, num_replicas, timeout, elapsed_times) ==
    /\ ServerUnlocked
    /\ conns[c].pc = "read"
    /\ executed < MaxCommands
    /\ LET r == perform_wait(master, num_replicas, timeout, elapsed_times,
                             FirstFailed(master.streams))
       IN /\ master' = r.master
          /\ wire' = [s \in Conns |->
                         IF s \in Range(r.sent)
                         THEN Append(wire[s], [request |-> get_ack, n |-> 0])
                         ELSE wire[s]]
          /\ conns' = [conns EXCEPT ![c] =
                           CASE r.t # "Ok" -> Returned
                             [] r.slept > 0 -> Sleeping(r.v)
                             [] OTHER -> Reading]
          /\ last' = [op |-> "WAIT", conn |-> c, num_replicas |-> num_replicas,
                      timeout |-> timeout, result |-> r, pre |-> master,
                      failed |-> FirstFailed(master.streams)]
    /\ executed' = executed + 1
    /\ UNCHANGED <<now, db, tasks, superseded, pending, replicas, attachedInSync, sync>>

\* The sleep is over: perform_wait returns, the guard is dropped and the
\* number is written back
WaitReturn(c) ==
    /\ conns[c].pc = "sleep"
    /\ conns' = [conns EXCEPT ![c] = Reading]
    /\ last' = [op |-> "WaitReturn", conn |-> c, v |-> conns[c].v]
    /\ UNCHANGED <<now, db, tasks, superseded, pending>>
    /\ UNCHANGED <<master, wire, replicas, executed, attachedInSync, sync>>

\* handle_stream up to the reply; perform_psync reads the replication id
\* under the server's read lock
ExecuteUnlocked(c, request) ==
    /\ request.op = "Psync" => ServerUnlocked
    /\ Execute(c, request)

\* server.replicate_command(command).await, once the lock is free
ReplicateUnlocked(c) == ServerUnlocked /\ ReplicateCommand(c)

\* server.add_stream(stream).await, once the lock is free
AttachUnlocked(c) == ServerUnlocked /\ Attach(c)

NextSleep ==
    \/ \E c \in Conns, request \in Requests : ExecuteUnlocked(c, request)
    \/ \E c \in Conns : Continue(c)
    \/ \E c \in Conns : ReplicateUnlocked(c)
    \/ \E c \in Conns : AttachUnlocked(c)
    \/ \E s \in Conns : ReplicaApply(s)
    \/ \E c \in Conns, num_replicas \in 0..1, timeout \in 0..MaxWait :
           \E elapsed_times \in Elapsing(Len(master.streams)) :
               WaitSend(c, num_replicas, timeout, elapsed_times)
    \/ \E c \in Conns : WaitReturn(c)

SpecSleep == Init /\ [][NextSleep]_vars

---------------------------------------------------------------------------
(* The handshake of a replica: sync_to_master, src/src/server.rs.  The peer
   answers whatever it likes; each read takes the bytes the code asks for *)

\* The server's own port, as `--port` gave it
ListeningPort == "6380"

\* the lines a peer may answer PING and REPLCONF with
Lines == {"+PONG\r\n", "+OK\r\n", "-ERR\r\n", "+PONG", "+OK", ""}

\* 40 characters that are a replication id, and 40 that are not: the end of
\* "+FULLRESYNCHRONISATION IS NOT AVAILABLE ON THIS NODE 0"
HexIds == {"8371b4fb1155b71f4a04d3e1bc3e18c4a990aeeb",
           "75cd7bc10c49047e0d163660f3b90625b1af31dc"}
Prose == "RONISATION IS NOT AVAILABLE ON THIS NODE"

\* What the peer may answer PSYNC with, in the portions sync_to_master reads:
\* 11 bytes, 41 bytes, 2 bytes, 2 bytes.  `first` is the byte the code drops.
Resyncs ==
    [header : {"+FULLRESYNC", "-ERR unknow"},
     id : {[first |-> " ", rest |-> id] : id \in HexIds}
              \cup {[first |-> "H", rest |-> Prose]},
     offset : {[first |-> " ", rest |-> ToString(n)] : n \in NatRange}
                  \cup {[first |-> " ", rest |-> "x"]},
     crlf : {"\r\n", "23"}]

\* What the peer may send for the snapshot: the line up to "\n", then the bytes
Snapshots ==
    [size : {[first |-> "$", rest |-> "2\r"], [first |-> "+", rest |-> "2\r"],
             [first |-> "$", rest |-> "x\r"]},
     rdb : {"RD"}]

\* str::trim of the size line: the "\r" goes
trim(text) ==
    IF \E n \in NatRange : ToString(n) \o "\r" = text
    THEN ToString(CHOOSE n \in NatRange : ToString(n) \o "\r" = text)
    ELSE text

\* TcpStream::connect, then the PING is written
SyncConnect ==
    /\ sync.pc = "connect"
    /\ sync' = Syncing("ping", <<<<"ping">>>>, <<>>)
    /\ UNCHANGED <<storeVars, conns, master, wire, replicas, executed,
                   attachedInSync>>

\* The read after PING: "+PONG\r\n" or bail; then REPLCONF listening-port
SyncPing(response) ==
    /\ sync.pc = "ping"
    /\ sync' =
           IF Len(response) # 7 \/ response # "+PONG\r\n"
           THEN SyncFailed(sync.written, Append(sync.replies, response))
           ELSE Syncing("listening-port",
                        Append(sync.written,
                               <<"REPLCONF", "listening-port", ListeningPort>>),
                        Append(sync.replies, response))
    /\ UNCHANGED <<storeVars, conns, master, wire, replicas, executed,
                   attachedInSync>>

\* The read after REPLCONF listening-port: "+OK\r\n" or bail; then REPLCONF capa
SyncListeningPort(response) ==
    /\ sync.pc = "listening-port"
    /\ sync' =
           IF Len(response) # 5 \/ response # "+OK\r\n"
           THEN SyncFailed(sync.written, Append(sync.replies, response))
           ELSE Syncing("capa",
                        Append(sync.written, <<"REPLCONF", "capa", "psync2">>),
                        Append(sync.replies, response))
    /\ UNCHANGED <<storeVars, conns, master, wire, replicas, executed,
                   attachedInSync>>

\* The read after REPLCONF capa psync2: "+OK\r\n" or bail; then PSYNC ? -1
SyncCapa(response) ==
    /\ sync.pc = "capa"
    /\ sync' =
           IF Len(response) # 5 \/ response # "+OK\r\n"
           THEN SyncFailed(sync.written, Append(sync.replies, response))
           ELSE Syncing("psync",
                        Append(sync.written, <<"PSYNC", "?", "-1">>),
                        Append(sync.replies, response))
    /\ UNCHANGED <<storeVars, conns, master, wire, replicas, executed,
                   attachedInSync>>

\* The reads after PSYNC: the header must be "+FULLRESYNC"; of the next 41
\* bytes the first is dropped and the rest is the id; of the next 2 the first
\* is dropped and the rest must parse as the offset; the next 2 must be CRLF
SyncPsync(response) ==
    /\ sync.pc = "psync"
    /\ sync' =
           IF \/ response.header # "+FULLRESYNC"
              \/ parse_u64(response.offset.rest) = NotANumber
              \/ response.crlf # "\r\n"
           THEN SyncFailed(sync.written, Append(sync.replies, response))
           ELSE Resynced(sync.written, Append(sync.replies, response),
                         response.id.rest, parse_u64(response.offset.rest))
    /\ UNCHANGED <<storeVars, conns, master, wire, replicas, executed,
                   attachedInSync>>

\* The reads of the snapshot: bytes up to "\n", of which the first is dropped
\* and the rest, trimmed, must parse as the size; then one read of that many
\* bytes; handle_replica_stream is spawned on the connection
SyncSnapshot(response) ==
    /\ sync.pc = "snapshot"
    /\ sync' =
           IF parse_u64(trim(response.size.rest)) = NotANumber
           THEN SyncFailed(sync.written, Append(sync.replies, response))
           ELSE Synced(sync.written, Append(sync.replies, response), sync.id,
                       sync.offset)
    /\ UNCHANGED <<storeVars, conns, master, wire, replicas, executed,
                   attachedInSync>>

NextSync ==
    \/ SyncConnect
    \/ \E response \in Lines : SyncPing(response)
    \/ \E response \in Lines : SyncListeningPort(response)
    \/ \E response \in Lines : SyncCapa(response)
    \/ \E response \in Resyncs : SyncPsync(response)
    \/ \E response \in Snapshots : SyncSnapshot(response)

SpecSync == Init /\ [][NextSync]_vars

---------------------------------------------------------------------------
(* Client connections sending frames, good and bad, as a state machine *)

\* The store's name, key and arguments for a parsed command
StoreOp(request) ==
    CASE request.op = "Get" -> <<"GET", request.body, NoArgs>>
      [] request.op = "Set" ->
             <<"SET", request.body.key,
               [value |-> request.body.value, get |-> request.body.get_old_value,
                overwrites |-> request.body.overwrite,
                expires |-> request.body.expires]>>
      [] request.op = "Xadd" ->
             <<"XADD", request.body.stream_key,
               [ms_time |-> request.body.ms_time,
                sequence_number |-> request.body.sequence_number,
                data |-> request.body.data]>>
      [] OTHER ->
             <<"XRANGE", request.body.key,
               [start |-> request.body.start, end |-> request.body.end]>>

\* The frames clients send: well-formed commands, and commands that fail by an
\* unknown keyword, a missing argument, a malformed argument, a time in the
\* past, an invalid stream id, or the kind of value under the key
Frames ==
    {<<"GET", "k1">>, <<"SET", "k1", "a">>, <<"SET", "k1", "a", "GET">>,
     <<"XADD", "k1", "1-1", "f", "v">>, <<"XRANGE", "k1", "-", "+">>,
     <<"NOPE">>, <<"SET", "k1">>, <<"SET", "k1", "a", "PX", "x">>,
     <<"SET", "k1", "a", "PXAT", "0">>, <<"XADD", "k1", "x", "f", "v">>,
     <<"XADD", "k1", "0-0", "f", "v">>}

\* One turn of handle_stream's loop on a Master without replicas: the frame is
\* read and parsed, the command runs, the reply is written and, for GET and SET,
\* replicate_command counts the frame.  An Err on the way ends the handler.
HandleStream(c, raw_request) ==
    /\ conns[c].pc = "read"
    /\ executed < MaxCommands
    /\ master.streams = <<>>
    /\ LET request == parse_request(raw_request, now)
           r == IF request.t = "Err"
                THEN Result(db, tasks, request)
                ELSE command_responses(db, tasks, now, request.v)
       IN /\ IF r.reply.t = "Err"
             THEN /\ conns' = [conns EXCEPT ![c] = Returned]
                  /\ UNCHANGED <<now, db, tasks, superseded, pending, master>>
             ELSE /\ CommitStore(StoreOp(request.v)[1], StoreOp(request.v)[2],
                                 StoreOp(request.v)[3], r)
                  /\ master' = IF request.v.op \in {"Get", "Set"}
                               THEN replicate_frame(master, raw_request, request.v)
                               ELSE master
                  /\ conns' = conns
          /\ last' = [op |-> "HandleStream", conn |-> c,
                      raw_request |-> raw_request, reply |-> r.reply,
                      preDb |-> db]
    /\ executed' = executed + 1
    /\ UNCHANGED <<wire, replicas, attachedInSync, sync>>

NextConn ==
    \E c \in Conns, raw_request \in Frames : HandleStream(c, raw_request)

SpecConn == Init /\ [][NextConn]_vars

---------------------------------------------------------------------------
(* One socket read that delivers several frames, as a state machine *)

\* The lines "$<len>" and "<word>" of the bulk strings of a RESP array
RECURSIVE bulk_lines(_)
bulk_lines(words) ==
    IF words = <<>>
    THEN <<>>
    ELSE <<"$" \o ToString(Len(Head(words))), Head(words)>>
            \o bulk_lines(Tail(words))

\* The bytes &buf[..bytes_read] of a read that delivered `frames`, cut by
\* String::lines(): for each frame "*<n>" and the lines of its bulk strings
RECURSIVE raw_lines(_)
raw_lines(frames) ==
    IF frames = <<>>
    THEN <<>>
    ELSE <<"*" \o ToString(Len(Head(frames)))>> \o bulk_lines(Head(frames))
            \o raw_lines(Tail(frames))

\* raw_request.iter().step_by(2).skip(2): the lines 5, 7, 9, .. of the read
step_by_2_skip_2(raw_request) ==
    [j \in 1..(IF Len(raw_request) < 5 THEN 0 ELSE (Len(raw_request) - 3) \div 2)
        |-> raw_request[2 * j + 3]]

\* request::parse_request over the lines of the whole read
parse_request_lines(raw_request, t) ==
    IF Len(raw_request) < 3
    THEN Err("missing route")
    ELSE Command_new(raw_request[3], step_by_2_skip_2(raw_request), t)

\* command.len() for command = &buf[..bytes_read]
RECURSIVE command_len(_)
command_len(frames) ==
    IF frames = <<>>
    THEN 0
    ELSE 1 + Digits(Len(Head(frames))) + 2 + BulkBytes(Head(frames))
            + command_len(Tail(frames))

\* The frames a client pipelines
PipelinedFrames == {<<"GET", "k1">>, <<"SET", "k1", "a">>, <<"SET", "k1", "b">>}

\* What one stream.read delivers: one frame, or two frames sent back to back
Reads ==
    {<<frame>> : frame \in Frames}
        \cup {<<f, g>> : f \in PipelinedFrames, g \in PipelinedFrames}

\* One turn of handle_stream's loop on a Master without replicas, the read
\* having delivered `frames`: the bytes read are parsed as one request, the
\* command runs, its reply is written and, for GET and SET,
\* replicate_command(command) is called with all the bytes read.  An Err on the
\* way ends the handler.
HandleRead(c, frames) ==
    /\ conns[c].pc = "read"
    /\ executed < MaxCommands
    /\ master.streams = <<>>
    /\ LET request == parse_request_lines(raw_lines(frames), now)
           r == IF request.t = "Err"
                THEN Result(db, tasks, request)
                ELSE command_responses(db, tasks, now, request.v)
           to_replicate == r.reply.t # "Err" /\ request.v.op \in {"Get", "Set"}
       IN /\ IF r.reply.t = "Err"
             THEN /\ conns' = [conns EXCEPT ![c] = Returned]
                  /\ UNCHANGED <<now, db, tasks, superseded, pending, master>>
             ELSE /\ CommitStore(StoreOp(request.v)[1], StoreOp(request.v)[2],
                                 StoreOp(request.v)[3], r)
                  /\ master' = IF to_replicate
                               THEN Master(master.streams,
                                           master.byte_offset + command_len(frames),
                                           IF request.v.op = "Set"
                                           THEN 1 ELSE master.num_sets)
                               ELSE master
                  /\ conns' = conns
          /\ last' = [op |-> "HandleRead", conn |-> c, frames |-> frames,
                      request |-> request,
                      written |-> IF r.reply.t = "Err" THEN <<>> ELSE <<r.reply>>,
                      replicated |-> IF to_replicate THEN frames ELSE <<>>,
                      preDb |-> db]
    /\ executed' = executed + 1
    /\ UNCHANGED <<wire, replicas, attachedInSync, sync>>

NextPipeline ==
    \E c \in Conns, frames \in Reads : HandleRead(c, frames)

SpecPipeline == Init /\ [][NextPipeline]_vars

---------------------------------------------------------------------------
(* The replica's handler reading frames off its connection, as a state machine.
   wire[s] holds the bytes written to the connection and not yet read, as
   lines, each standing for its text and "\r\n" *)

\* What one stream.read delivers: complete lines, and `tail`, the bytes of the
\* next line that came with them ("" when the read ended at the end of a line)
Chunk(lines, tail) == [lines |-> lines, tail |-> tail]

\* The first bytes of a line, read now, and its other bytes, read later
Heads == {"*", "*2", "*3", "$", "$3", "G", "S", "k"}
Rests == {"", "1", "2", "3", "ET"}

\* The ways the bytes of `line` fall into those read now and those read later
Splits(line) == {p \in Heads \X Rests : p[1] \o p[2] = line}

\* The first byte of a line
FirstBytes == {"*", "$", "k"}

\* str::parse::<usize>(&size[1..]): the number after the line's first byte
parse_size(size) ==
    IF \E c \in FirstBytes, n \in 0..9 : size = c \o ToString(n)
    THEN CHOOSE n \in 0..9 : \E c \in FirstBytes : size = c \o ToString(n)
    ELSE NotANumber

\* The bytes read_line reports for the lines i..j of a read: text and "\r\n"
RECURSIVE bytes_read(_, _, _)
bytes_read(lines, i, j) ==
    IF i > j THEN 0 ELSE Len(lines[i]) + 2 + bytes_read(lines, i + 1, j)

\* utils::read_frame with the cursor before line i of the read.  The first
\* read_line meeting the end of the read is Ok(None); a line without its first
\* byte makes &size[1..] panic; the end of the read met by a later read_line
\* is the Err of read_exact.
read_frame(chunk, i) ==
    LET size == chunk.lines[i]
        parsed_size == parse_size(size)
    IN
    IF i > Len(chunk.lines)
    THEN [t |-> "None"]
    ELSE IF size = ""
    THEN [t |-> "Panic"]
    ELSE IF parsed_size = NotANumber
    THEN Err("invalid digit found in string")
    ELSE IF i + 2 * parsed_size > Len(chunk.lines)
    THEN Err("failed to fill whole buffer")
    ELSE [t |-> "Some",
          data |-> SubSeq(chunk.lines, i, i + 2 * parsed_size),
          bytes_processed |-> bytes_read(chunk.lines, i, i + 2 * parsed_size)]

\* The inner loop of handle_replica_stream over one read, the cursor before
\* line i: frames are read, parsed, run (GET and SET) and counted until
\* read_frame is None; an Err or a panic on the way ends the handler
RECURSIVE replica_frames(_, _, _, _)
replica_frames(chunk, i, repl, t) ==
    LET frame == read_frame(chunk, i)
        request == parse_request_lines(frame.data, t)
        r == IF request.v.op \in {"Get", "Set"}
             THEN command_responses(repl.db, repl.tasks, t, request.v)
             ELSE Result(repl.db, repl.tasks, okay_string)
    IN
    CASE frame.t = "None" -> [t |-> "Ok", v |-> repl]
      [] frame.t \in {"Err", "Panic"} -> [t |-> frame.t, v |-> repl]
      [] request.t = "Err" -> [t |-> "Err", v |-> repl]
      [] r.reply.t = "Err" -> [t |-> "Err", v |-> repl]
      [] OTHER ->
           replica_frames(chunk, i + Len(frame.data),
               Replica(r.db, r.tasks, repl.read + 1,
                       repl.bytes_received + frame.bytes_processed), t)

\* The frames a Primary forwards
ForwardedFrames == {<<"GET", "k1">>, <<"SET", "k1", "a">>}

\* The Primary forwards a frame: replicate_command counts its bytes and writes
\* them to the connection
Forward(s, frame) ==
    /\ executed < MaxCommands
    /\ executed' = executed + 1
    /\ master' = Master(master.streams,
                        master.byte_offset + command_len(<<frame>>),
                        IF Head(frame) = "SET" THEN 1 ELSE master.num_sets)
    /\ wire' = [wire EXCEPT ![s] = wire[s] \o raw_lines(<<frame>>)]
    /\ last' = [op |-> "Forward", stream |-> s, frame |-> frame]
    /\ UNCHANGED <<now, db, tasks, superseded, pending>>
    /\ UNCHANGED <<conns, replicas, attachedInSync, sync>>

\* One turn of handle_replica_stream's outer loop: stream.read delivers the
\* first k lines on the connection and, with `split`, the first bytes of the
\* line after them; the rest stays on the connection.  conns[s] is the
\* handler's position: suspended in stream.read, or returned.
ReplicaRead(s, k, split) ==
    /\ conns[s].pc = "read"
    /\ k \in 0..Len(wire[s])
    /\ split # <<"", "">> => (k < Len(wire[s]) /\ split \in Splits(wire[s][k + 1]))
    /\ k > 0 \/ split # <<"", "">>
    /\ LET chunk == Chunk(SubSeq(wire[s], 1, k), split[1])
           rest == IF split = <<"", "">>
                   THEN SubSeq(wire[s], k + 1, Len(wire[s]))
                   ELSE <<split[2]>> \o SubSeq(wire[s], k + 2, Len(wire[s]))
           h == replica_frames(chunk, 1, replicas[s], now)
       IN /\ wire' = [wire EXCEPT ![s] = rest]
          /\ replicas' = [replicas EXCEPT ![s] = h.v]
          /\ conns' = [conns EXCEPT ![s] = IF h.t = "Ok" THEN Reading ELSE Returned]
          /\ last' = [op |-> "ReplicaRead", stream |-> s, chunk |-> chunk,
                      result |-> h.t, pre |-> replicas[s]]
    /\ UNCHANGED <<now, db, tasks, superseded, pending>>
    /\ UNCHANGED <<master, executed, attachedInSync, sync>>

NextFrame ==
    \/ \E frame \in ForwardedFrames : Forward("c1", frame)
    \/ \E k \in 0..(3 * MaxCommands + 4), split \in (Heads \X Rests) \cup {<<"", "">>} :
           ReplicaRead("c1", k, split)

SpecFrame == Init /\ [][NextFrame]_vars

---------------------------------------------------------------------------
(* XREAD BLOCK: readers on the broadcast channel, as a state machine *)

\* request::XReadBlock
Unlimited == [kind |-> "Unlimited"]
Limited(wait) == [kind |-> "Limited", wait |-> wait]

\* The closure both blocking readers apply to a transmission: some requested
\* stream has its key, and its id is past that stream's start
is_requested(read_command_streams, xadd) ==
    \E i \in DOMAIN read_command_streams :
        /\ read_command_streams[i].key = xadd.key
        /\ stream_entry_greater_than_start(xadd.ms, xadd.seq,
                                           read_command_streams[i].start)

\* read_streams_after_limited_wait putting a transmission into its per-key groups
accumulate(streams, xadd) ==
    LET inner_redis_stream == InnerRedisStream(xadd.ms, xadd.seq, xadd.data) IN
    IF \E j \in DOMAIN streams : streams[j].key = xadd.key
    THEN [j \in DOMAIN streams |->
             IF streams[j].key = xadd.key
             THEN ReadStreamItem(Append(streams[j].streams, inner_redis_stream),
                                 xadd.key)
             ELSE streams[j]]
    ELSE Append(streams, ReadStreamItem(<<inner_redis_stream>>, xadd.key))

\* What read_streams_after_limited_wait returns once out of its loop
limited_output(streams) ==
    IF streams = <<>> THEN empty_string ELSE encode_streams(streams)

\* A faulty reader: it starts from the entries the store already holds
BlockedAfterSnapshot(read_command_streams, block, start) ==
    [pc |-> "xread", read_command_streams |-> read_command_streams,
     block |-> block, start |-> start, received |-> <<>>,
     streams |-> read_streams_loop(db, read_command_streams, 1, <<>>).streams,
     published |-> <<>>]

\* handle_stream suspended in a blocking XREAD.  `received` is what the
\* receiver it subscribed holds unread; `streams` is what the limited wait has
\* accumulated; `start` is Instant::now() at the call.  `published` is
\* bookkeeping: every transmission sent since the subscription, with its time.
Blocked(read_command_streams, block, start) ==
    [pc |-> "xread", read_command_streams |-> read_command_streams,
     block |-> block, start |-> start, received |-> <<>>, streams |-> <<>>,
     published |-> <<>>]

\* Sender::send: every subscribed receiver gets the transmissions
send(cs, events, t) ==
    [c \in DOMAIN cs |->
        IF cs[c].pc = "xread" /\ events # <<>>
        THEN [cs[c] EXCEPT !.received = @ \o events,
                           !.published = @ \o [i \in DOMAIN events |->
                                                  [xadd |-> events[i], at |-> t]]]
        ELSE cs[c]]

\* The connections that send XREAD BLOCK
Readers == {"c1"}

\* XREAD BLOCK n STREAMS key [key] id [id]
BlockLists ==
    {<<XReadCommandStream("k1", AllNewEntries)>>,
     <<XReadCommandStream("k1", Specified(1, 0))>>,
     <<XReadCommandStream("k1", Specified(1, 0)),
       XReadCommandStream("k2", AllNewEntries)>>}

\* handle_stream reads XREAD BLOCK: it subscribes (sender.subscribe()) and
\* read_from_streams enters the loop of its blocking reader
ReadStreamsBlocking(c, read_command_streams, block) ==
    /\ conns[c].pc = "read"
    /\ executed < MaxCommands
    /\ executed' = executed + 1
    /\ conns' = [conns EXCEPT ![c] = Blocked(read_command_streams, block, now)]
    /\ last' = [op |-> "XREAD BLOCK", conn |-> c]
    /\ UNCHANGED <<now, db, tasks, superseded, pending>>
    /\ UNCHANGED <<master, wire, replicas, attachedInSync, sync>>

\* The entries the store's streams hold
RECURSIVE Entries(_, _)
Entries(d, ks) ==
    IF ks = {}
    THEN 0
    ELSE LET k == CHOOSE k \in ks : TRUE
         IN (IF d[k].kind = "stream" THEN Len(d[k].entries) ELSE 0)
                + Entries(d, ks \ {k})

\* XADD by a client: add_stream sends the transmission to the subscribed readers
AddStreamBroadcast(key, id, data) ==
    /\ Entries(db, Keys) < MaxEntries
    /\ LET r == add_stream(db, tasks, now, XAddCommand(key, id[1], id[2], data)) IN
         /\ CommitStore("XADD", key,
                        [ms_time |-> id[1], sequence_number |-> id[2],
                         data |-> data], r)
         /\ last' = Obs("XADD", key,
                        [ms_time |-> id[1], sequence_number |-> id[2],
                         data |-> data], r)
         /\ conns' = send(conns, r.events, now)
    /\ UNCHANGED <<master, wire, replicas, executed, attachedInSync, sync>>

\* What the reader leaves in `last` when its XREAD returns
Returns(c, reply) ==
    [op |-> "XREAD returns", conn |-> c, reply |-> reply, at |-> now,
     read_command_streams |-> conns[c].read_command_streams,
     block |-> conns[c].block, start |-> conns[c].start,
     published |-> conns[c].published]

\* receiver.recv() gives the reader its next transmission.  With a limited wait
\* the transmission is accumulated if requested, and the loop goes round to
\* its test of the time elapsed, which ends it once the wait is over.  Without
\* a limit the first requested transmission is the reply.
Recv(c) ==
    /\ conns[c].pc = "xread"
    /\ conns[c].received # <<>>
    /\ LET xadd == Head(conns[c].received)
           requested == is_requested(conns[c].read_command_streams, xadd)
           streams == IF requested
                      THEN accumulate(conns[c].streams, xadd)
                      ELSE conns[c].streams
           returns == IF conns[c].block.kind = "Limited"
                      THEN now - conns[c].start > conns[c].block.wait
                      ELSE requested
           reply == IF conns[c].block.kind = "Limited"
                    THEN limited_output(streams)
                    ELSE encode_streams(<<ReadStreamItem(
                             <<InnerRedisStream(xadd.ms, xadd.seq, xadd.data)>>,
                             xadd.key)>>)
       IN IF returns
          THEN /\ conns' = [conns EXCEPT ![c] = Reading]
               /\ last' = Returns(c, reply)
          ELSE /\ conns' = [conns EXCEPT ![c].received = Tail(@),
                                         ![c].streams = streams]
               /\ last' = [op |-> "recv", conn |-> c]
    /\ UNCHANGED <<now, db, tasks, superseded, pending>>
    /\ UNCHANGED <<master, wire, replicas, executed, attachedInSync, sync>>

\* timeout(wait - elapsed, receiver.recv()) elapses with nothing to receive
Elapsed(c) ==
    /\ conns[c].pc = "xread"
    /\ conns[c].block.kind = "Limited"
    /\ conns[c].received = <<>>
    /\ now - conns[c].start >= conns[c].block.wait
    /\ conns' = [conns EXCEPT ![c] = Reading]
    /\ last' = Returns(c, limited_output(conns[c].streams))
    /\ UNCHANGED <<now, db, tasks, superseded, pending>>
    /\ UNCHANGED <<master, wire, replicas, executed, attachedInSync, sync>>

\* XREAD BLOCK n with n > 0, while clients append
NextBlock ==
    \/ Tick
    \/ \E c \in Readers, read_command_streams \in BlockLists, wait \in Durations :
            ReadStreamsBlocking(c, read_command_streams, Limited(wait))
    \/ \E key \in Keys, ms \in 1..MaxMs :
            AddStreamBroadcast(key, <<Predetermined(ms), Autogenerate>>, "f")
    \/ \E c \in Readers : Recv(c)
    \/ \E c \in Readers : Elapsed(c)

SpecBlock == Init /\ [][NextBlock]_vars

\* XREAD BLOCK 0, while clients append
NextForever ==
    \/ \E c \in Readers, read_command_streams \in BlockLists :
            ReadStreamsBlocking(c, read_command_streams, Unlimited)
    \/ \E key \in Keys, ms \in 1..MaxMs :
            AddStreamBroadcast(key, <<Predetermined(ms), Autogenerate>>, "f")
    \/ \E c \in Readers : Recv(c)

\* The runtime polls a reader whose receiver holds a transmission
FairForever == \A c \in Readers : WF_vars(Recv(c))

SpecForever == Init /\ [][NextForever]_vars /\ FairForever

\* XREAD BLOCK with and without a limit, while clients append
NextXread == NextBlock \/ NextForever

SpecXread == Init /\ [][NextXread]_vars

---------------------------------------------------------------------------
(* Claims about the storage engine, checked under SpecStore *)

\* C1: an expiration task never removes a value written after the task was
\* scheduled: when a task's database.remove takes out an item that was inserted
\* after the task was spawned, that item's own deadline has been reached.
C1_TaskSparesLaterValue ==
    (last.op = "TaskRemove" /\ last.stale /\ last.pre # NoItem) =>
        /\ last.pre.kind = "string"
        /\ WakeOf(tasks \cup {last.task}, last.pre.handle) # NoDuration
        /\ WakeOf(tasks \cup {last.task}, last.pre.handle) <= now

\* C8: a SET that is not refused writes according to its overwrite mode:
\* Normal always, OnlyOverwrite (XX) exactly when the key exists,
\* NeverOverwrite (NX) exactly when it does not, whatever kind the key holds.
C8_SetHonoursOverwriteMode ==
    (last.op = "SET" /\ last.reply.t # "error") =>
        LET exists == last.pre # NoItem
            mode == last.args.overwrites
        IN /\ last.inserted <=>
                  CASE mode = "Normal" -> TRUE
                    [] mode = "OnlyOverwrite" -> exists
                    [] OTHER -> ~exists
           /\ (mode = "NeverOverwrite" /\ exists) =>
                  /\ db[last.key].kind = last.pre.kind
                  /\ last.pre.kind = "string" => db[last.key].data = last.pre.data
                  /\ last.pre.kind = "stream" => db[last.key] = last.pre
           /\ (mode = "OnlyOverwrite" /\ ~exists) => db[last.key] = NoItem

\* C9: SET ... KEEPTTL that replaces the value keeps the key's deadline: the
\* key is due at the absolute time it was due before the SET, and a key with
\* no deadline has none afterwards.
C9_KeepTtlPreservesDeadline ==
    (/\ last.op = "SET"
     /\ last.args.expires.kind = "Other"
     /\ last.inserted) =>
        /\ db[last.key].kind = "string"
        /\ db[last.key].data = last.args.value
        /\ WakeOf(tasks, db[last.key].handle) = last.preWake

\* C10: SET ... NX on an existing string key replies OK, leaves the value, and
\* applies the expiry option to the entry: with a Duration the old deadline is
\* cancelled and now + d installed, with no option the old deadline is
\* cancelled and none is installed.
C10_NxOnExistingRefreshesExpiry ==
    (/\ last.op = "SET"
     /\ last.args.overwrites = "NeverOverwrite"
     /\ ~last.args.get
     /\ last.pre.kind = "string"
     /\ last.args.expires.kind \in {"None", "Expiry"}) =>
        LET item == db[last.key]
            old_cancelled ==
                \/ last.pre.handle = NoHandle
                \/ ~\E t \in tasks : t.id = last.pre.handle /\ t.id # item.handle
        IN /\ last.reply = okay_string
           /\ item.kind = "string"
           /\ item.data = last.pre.data
           /\ old_cancelled
           /\ last.args.expires.kind = "Expiry" =>
                  WakeOf(tasks, item.handle) = now + last.args.expires.dur
           /\ last.args.expires.kind = "None" => item.handle = NoHandle

\* C11 (SpecStore): a command that replaces, changes or removes a string
\* leaves no pending (still sleeping) deletion task of that string behind: after
\* DEL, GETDEL and INCR the task the old handle named is gone, and after a
\* replacing SET a sleeping task under that handle is the new value's own.
C11_WritePathsAbortPendingTask ==
    (/\ last.op \in {"SET", "DEL", "GETDEL", "INCR"}
     /\ last.reply.t # "error"
     /\ last.pre.kind = "string"
     /\ last.pre.handle # NoHandle
     /\ (last.op = "SET" => last.inserted)) =>
        \A t \in tasks :
            (t.id = last.pre.handle /\ t.st = "sleeping") =>
                /\ last.op = "SET"
                /\ db[last.key].handle = t.id

\* C12 (SpecStore, safety half): while no later command has followed a SET of
\* k with a duration, GET k returns the value set at any time before the
\* deadline.
C12_ValueKeptUntilDeadline ==
    \A k \in Keys :
        (/\ pending[k].set
         /\ pending[k].deadline # NoDuration
         /\ now < pending[k].deadline) =>
            get_value(db, tasks, k).reply = bulk_string(pending[k].value)

\* C12 (SpecStoreLive, liveness half): once the deadline of such a SET is
\* within the time modelled, the key is eventually removed (or another
\* command follows on the key).
C12_EventuallyRemoved ==
    \A k \in StoreKeys, value \in Values, deadline \in 1..MaxTime :
        LET p == [set |-> TRUE, value |-> value, deadline |-> deadline]
        IN (pending[k] = p)
               ~> (pending[k] # p \/ get_value(db, tasks, k).reply = empty_string)

\* C13 (SpecStore): while no later command has followed a SET of k without
\* expiry option (the first or a repeated one), GET k returns the value set.
C13_GetReturnsWhatSetWrote ==
    \A k \in Keys :
        (pending[k].set /\ pending[k].deadline = NoDuration) =>
            get_value(db, tasks, k).reply = bulk_string(pending[k].value)

\* C14 (SpecDel): DEL replies the number of distinct listed keys that held
\* something, of either kind; afterwards each listed key is gone (GET replies
\* null, TYPE replies none) and the keys not listed are as they were.
C14_DelCountsAndRemoves ==
    last.op = "DEL" =>
        LET listed == Range(last.args.keys)
            existed == {k \in listed : last.preDb[k] # NoItem}
        IN /\ last.reply = encode_integer(Cardinality(existed))
           /\ \A k \in listed :
                  /\ get_value(db, tasks, k).reply = empty_string
                  /\ get_type(db, k) = bulk_string("none")
           /\ \A k \in Keys \ listed : db[k] = last.preDb[k]

\* DEL k k on a key holding a stream has replied 1
C14_Witness ==
    /\ last.op = "DEL"
    /\ Len(last.args.keys) = 2
    /\ last.args.keys[1] = last.args.keys[2]
    /\ last.preDb[last.args.keys[1]].kind = "stream"
    /\ last.reply = encode_integer(1)
    /\ db[last.args.keys[1]] = NoItem

\* The command in `last` was aimed at a key holding the other kind of value
WrongKind ==
    \/ last.op \in {"GET", "GETEX", "GETDEL"} /\ last.pre.kind = "stream"
    \/ last.op = "SET" /\ last.args.get /\ last.pre.kind = "stream"
    \/ last.op \in {"XADD", "XRANGE"} /\ last.pre.kind = "string"
    \/ /\ last.op = "XREAD"
       /\ \E i \in DOMAIN last.args.streams :
              last.preDb[last.args.streams[i].key].kind = "string"

\* C15: a command aimed at a key of the wrong kind (GET, GETEX, GETDEL, SET ..
\* GET on a stream; XADD, XRANGE, XREAD on a string) is answered with the
\* WRONGTYPE error reply and leaves the store as it was
C15_WrongKindAnsweredAndStoreKept ==
    WrongKind =>
        /\ last.reply = error_string(wrong_type_str)
        /\ db = last.preDb

\* The part of C15 the code keeps: every wrong-kind command other than XRANGE and
\* XREAD is answered with the WRONGTYPE error reply, and none changes the store
C15_StringCommandsAndXaddAnswered ==
    WrongKind =>
        /\ db = last.preDb
        /\ last.op \notin {"XRANGE", "XREAD"} =>
               last.reply = error_string(wrong_type_str)

\* C16: a command that fails (unknown keyword, missing or malformed arguments,
\* WRONGTYPE, invalid stream id, time in the past) is answered with an error
\* reply on its connection, and the connection stays open for the next command
C16_FailingCommandKeepsConnection ==
    (last.op = "HandleStream" /\ last.reply.t \in {"error", "Err"}) =>
        /\ last.reply.t = "error"
        /\ conns[last.conn].pc = "read"

\* The part of C16 the code keeps: a command the store refuses with an error
\* reply leaves its connection open and the store as it was
C16_RefusedByStoreKeepsConnection ==
    (last.op = "HandleStream" /\ last.reply.t = "error") =>
        /\ conns[last.conn].pc = "read"
        /\ db = last.preDb

\* C17: a write to one replica that fails ends nothing but that replica's
\* connection: the client whose command was being forwarded goes on being
\* served, and the frame is written to every replica whose peer is there
C17_ReplicaFailureSparesClient ==
    [][\A c \in Conns :
          ReplicateCommand(c) =>
              /\ conns'[c] = Reading
              /\ \A s \in Range(master.streams) :
                     conns[s].pc # "closed" =>
                         wire'[s] = Append(wire[s], [request |-> conns[c].request,
                                                     n |-> conns[c].n])]_vars

\* The key held a string that is not an integer literal
NotIntegerLiteral(item) ==
    /\ item.kind = "string"
    /\ item.data \notin {ToString(n) : n \in IntRange}

\* C30 (SpecIncr): INCR and DECR on a key whose string is not an integer
\* literal, a fractional value left by INCRBYFLOAT included, answer
\* "ERR value is not an integer or out of range" and leave the value as it was
C30_NotAnIntegerIsRefused ==
    (last.op = "INCR" /\ NotIntegerLiteral(last.pre)) =>
        /\ last.reply = error_string(not_an_integer)
        /\ db[last.key] = last.pre

\* What holds: a string with no '.' that is not an integer literal is refused
\* with that error and kept, and no INCR or DECR that is refused changes the key
C30_WordIsRefused ==
    /\ (last.op = "INCR" /\ NotIntegerLiteral(last.pre) /\ last.pre.data = "a") =>
           /\ last.reply = error_string(not_an_integer)
           /\ db[last.key] = last.pre
    /\ (last.op = "INCR" /\ last.reply.t = "error") => db[last.key] = last.pre

\* The integer under the key before the command, an absent key counting as 0
OldInteger ==
    IF last.pre = NoItem
    THEN 0
    ELSE CHOOSE n \in IntRange : ToString(n) = last.pre.data

\* The command was INCRBY or DECRBY on an absent key or an integer
OnInteger ==
    /\ last.op \in {"INCRBY", "DECRBY"}
    /\ \/ last.pre = NoItem
       \/ /\ last.pre.kind = "string"
          /\ last.pre.data \in {ToString(n) : n \in IntRange}

\* The command has stored and answered `target` if an i64 holds it, and is an
\* error that leaves the key as it was if not
StoresOrOverflows(target) ==
    IF target \in IntRange
    THEN /\ last.reply = encode_integer(target)
         /\ db[last.key].kind = "string"
         /\ db[last.key].data = ToString(target)
    ELSE /\ last.reply.t = "error"
         /\ db[last.key] = last.pre

\* C31 (SpecIncrBy): INCRBY k d stores and answers old + d and DECRBY k d
\* old - d, an absent key counting as 0, for every d an i64 holds; when the
\* result does not fit an i64 the command is an error and the key is unchanged
C31_IncrByAndDecrByAreExact ==
    OnInteger =>
        StoresOrOverflows(IF last.op = "INCRBY"
                          THEN OldInteger + last.args.amount
                          ELSE OldInteger - last.args.amount)

\* What holds: the same for INCRBY with every d and for DECRBY with every d
\* other than i64::MIN
C31_ExactButForDecrByMin ==
    (OnInteger /\ ~(last.op = "DECRBY" /\ last.args.amount = i64_MIN)) =>
        StoresOrOverflows(IF last.op = "INCRBY"
                          THEN OldInteger + last.args.amount
                          ELSE OldInteger - last.args.amount)

\* C32 (SpecStore): GETDEL on a key holding a string answers the value and
\* removes the key, and the value's deletion task is gone, so that nothing set
\* under the key afterwards is removed by it; on an absent key it answers null
\* and the store is as it was
C32_GetDelRemovesAndAborts ==
    last.op = "GETDEL" =>
        /\ last.pre.kind = "string" =>
               /\ last.reply = bulk_string(last.pre.data)
               /\ db[last.key] = NoItem
               /\ ~\E t \in tasks : t.id = last.pre.handle
        /\ last.pre = NoItem =>
               /\ last.reply = empty_string
               /\ db = last.preDb

\* What holds: the answer and the removal, and a task still in its sleep is
\* cancelled
C32_GetDelRemoves ==
    last.op = "GETDEL" =>
        /\ last.pre.kind = "string" =>
               /\ last.reply = bulk_string(last.pre.data)
               /\ db[last.key] = NoItem
               /\ ~\E t \in tasks : t.id = last.pre.handle /\ t.st = "sleeping"
        /\ last.pre = NoItem =>
               /\ last.reply = empty_string
               /\ db = last.preDb

\* C33 (SpecStore): GETEX on a key holding a string answers the stored value
\* and leaves the value and every other key alone; the task of the previous
\* deadline is gone; with PERSIST the value has no task, with a duration d its
\* task wakes at now + d; on an absent key it answers null and the store is as
\* it was
C33_GetExChangesOnlyTheDeadline ==
    last.op = "GETEX" =>
        /\ last.pre.kind = "string" =>
               /\ last.reply = bulk_string(last.pre.data)
               /\ db[last.key].kind = "string"
               /\ db[last.key].data = last.pre.data
               /\ \A k \in Keys \ {last.key} : db[k] = last.preDb[k]
               /\ ~\E t \in tasks : /\ t.id = last.pre.handle
                                    /\ t.id # db[last.key].handle
               /\ last.args.expires.kind = "Other" =>
                      db[last.key].handle = NoHandle
               /\ last.args.expires.kind = "Expiry" =>
                      WakeOf(tasks, db[last.key].handle)
                          = last.at + last.args.expires.dur
        /\ last.pre = NoItem =>
               /\ last.reply = empty_string
               /\ db = last.preDb

\* What holds: the same, for a previous task still in its sleep
C33_GetExCancelsASleepingTask ==
    last.op = "GETEX" =>
        /\ last.pre.kind = "string" =>
               /\ last.reply = bulk_string(last.pre.data)
               /\ db[last.key].kind = "string"
               /\ db[last.key].data = last.pre.data
               /\ \A k \in Keys \ {last.key} : db[k] = last.preDb[k]
               /\ ~\E t \in tasks : /\ t.id = last.pre.handle
                                    /\ t.id # db[last.key].handle
                                    /\ t.st = "sleeping"
               /\ last.args.expires.kind = "Other" =>
                      db[last.key].handle = NoHandle
               /\ last.args.expires.kind = "Expiry" =>
                      WakeOf(tasks, db[last.key].handle)
                          = last.at + last.args.expires.dur
        /\ last.pre = NoItem =>
               /\ last.reply = empty_string
               /\ db = last.preDb

\* GETEX with PERSIST and with a duration, each on a value with a pending task
C33_Witness ==
    /\ last.op = "GETEX"
    /\ last.pre.kind = "string"
    /\ last.pre.handle # NoHandle
    /\ last.args.expires.kind = "Expiry"
    /\ db[last.key].handle # NoHandle

\* C36 (SpecLoad): a string with a deadline that is still in the store once
\* the deadline has passed has a task about to remove it; for a value loaded
\* at time 1 the deadline is 1 + its duration, for a value set later the task
\* is the one SET spawned
C36_LoadedValueExpires ==
    \A k \in Keys :
        (/\ db[k].kind = "string"
         /\ db[k].duration # NoDuration
         /\ db[k].handle = NoHandle
         /\ now > 1 + db[k].duration) =>
            \E t \in tasks : t.key = k

\* What holds: a loaded value that no command is sent for, with or without
\* expire-at, stays as it was loaded
C36_LoadedValueStays ==
    [][\A k \in Keys \ StoreKeys : db'[k] = db[k]]_vars

\* C39 (SpecStore): for every key holding a string, the value records a
\* duration exactly when a live deletion task is pending under its handle, and
\* the duration recorded is the one the task was spawned with: after a SET or
\* GETEX with a duration d, the one d
C39_DurationMatchesTask ==
    \A k \in Keys :
        db[k].kind = "string" =>
            /\ (db[k].duration # NoDuration)
                   <=> (WakeOf(tasks, db[k].handle) # NoDuration)
            /\ (/\ last.op \in {"SET", "GETEX"}
                /\ last.key = k
                /\ last.reply.t # "error"
                /\ last.args.expires.kind = "Expiry") =>
                   db[k].duration = last.args.expires.dur

\* What holds: a SET that replaces the value records the duration of the task
\* it spawns, and none when it spawns none
C39_ReplacingSetRecordsItsTask ==
    (last.op = "SET" /\ last.inserted) =>
        LET item == db[last.key]
        IN /\ (item.duration # NoDuration) <=> (item.handle # NoHandle)
           /\ item.handle # NoHandle =>
                  WakeOf(tasks, item.handle) = last.at + item.duration

---------------------------------------------------------------------------
(* Claims about the stream engine *)

IdLess(a, b) == a.ms < b.ms \/ (a.ms = b.ms /\ a.seq < b.seq)

Latest(item) == item.entries[Len(item.entries)]

StrictlyIncreasing(entries) ==
    \A i \in 1..(Len(entries) - 1) : IdLess(entries[i], entries[i + 1])

\* C5 (SpecStream): every stream is non-empty, holds no 0-0 entry and has
\* strictly increasing ids; an XADD with a literal id that is 0-0 or not
\* greater than the latest entry's is refused, and a refused XADD leaves the
\* key as it was and sends no event.
C5_StreamIdsStrictlyIncrease ==
    /\ \A k \in Keys :
           db[k].kind = "stream" =>
               /\ Len(db[k].entries) >= 1
               /\ StrictlyIncreasing(db[k].entries)
               /\ \A i \in 1..Len(db[k].entries) :
                      ~(db[k].entries[i].ms = 0 /\ db[k].entries[i].seq = 0)
    /\ last.op = "XADD" =>
           LET ms == last.args.ms_time
               seq == last.args.sequence_number
               id == [ms |-> ms.val, seq |-> seq.val]
           IN /\ (/\ ~ms.auto
                  /\ ~seq.auto
                  /\ \/ (id.ms = 0 /\ id.seq = 0)
                     \/ (last.pre.kind = "stream" /\ ~IdLess(Latest(last.pre), id)))
                     => last.reply.t = "error"
              /\ last.reply.t = "error" =>
                     (db[last.key] = last.pre /\ last.sent = <<>>)

\* A literal id not greater than the latest entry's has just been refused
C5_Witness ==
    /\ last.op = "XADD"
    /\ last.pre.kind = "stream"
    /\ ~last.args.ms_time.auto
    /\ ~last.args.sequence_number.auto
    /\ last.args.ms_time.val = Latest(last.pre).ms
    /\ last.args.sequence_number.val = Latest(last.pre).seq
    /\ last.reply = error_string(XaddSmallerError)
    /\ db[last.key] = last.pre

\* C6 (SpecStream): XADD key ms-* on a stream whose latest entry is lms-lseq,
\* with ms >= lms, is given the sequence number 0 when lms < ms and lseq + 1
\* otherwise, and succeeds.
C6_AutoSequenceFollowsLatest ==
    (/\ last.op = "XADD"
     /\ last.pre.kind = "stream"
     /\ ~last.args.ms_time.auto
     /\ last.args.sequence_number.auto
     /\ last.args.ms_time.val >= Latest(last.pre).ms) =>
        LET ms == last.args.ms_time.val
            latest == Latest(last.pre)
            seq == IF latest.ms < ms THEN 0 ELSE latest.seq + 1
        IN last.reply = stream_id_string(ms, seq)

\* C7 (SpecAutoId): XADD key * always succeeds, with an id greater than every
\* id the stream holds.
C7_AutoIdsStrictlyIncrease ==
    (last.op = "XADD" /\ last.args.ms_time.auto) =>
        /\ last.reply.t = "id"
        /\ last.pre.kind = "stream" =>
               IdLess(Latest(last.pre), [ms |-> last.reply.ms, seq |-> last.reply.seq])

\* The entries with an id greater than `start`, in insertion order
EntriesAfter(entries, start) ==
    SelectSeq(entries, LAMBDA entry : IdLess(start, entry))

\* Requested stream i of the XREAD in `last` had entries to give
Contributes(i) ==
    LET command_stream == last.args.streams[i]
        item == last.preDb[command_stream.key]
    IN /\ item.kind = "stream"
       /\ EntriesAfter(item.entries, command_stream.start) # <<>>

\* The XREAD in `last` named no key that holds a string
ReadOfStreams ==
    /\ last.op = "XREAD"
    /\ \A i \in DOMAIN last.args.streams :
           last.preDb[last.args.streams[i].key].kind # "string"

\* Every stream in the reply carries exactly the entries after its `start`, and
\* every requested stream that had such entries is in the reply
ReplyHoldsEntriesAfter ==
    /\ last.reply.t = "streams"
    /\ \A j \in DOMAIN last.reply.streams :
           \E i \in DOMAIN last.args.streams :
               /\ last.args.streams[i].key = last.reply.streams[j].key
               /\ last.preDb[last.args.streams[i].key].kind = "stream"
               /\ last.reply.streams[j].streams =
                      EntriesAfter(last.preDb[last.args.streams[i].key].entries,
                                   last.args.streams[i].start)
    /\ \A i \in DOMAIN last.args.streams :
           Contributes(i) =>
               \E j \in DOMAIN last.reply.streams :
                   last.reply.streams[j].key = last.args.streams[i].key

\* C18 (SpecRead): XREAD without BLOCK returns, for each requested stream, the
\* entries with an id strictly greater than `after`, in insertion order; when no
\* requested stream has such an entry (absent key, or none greater) it returns
\* null
C18_ReadReturnsEntriesAfterOrNull ==
    ReadOfStreams =>
        IF \E i \in DOMAIN last.args.streams : Contributes(i)
        THEN ReplyHoldsEntriesAfter
        ELSE last.reply = empty_string

\* The part of C18 the code keeps: a reply that is not null holds the entries
\* after `start` of each stream, and the reply is null when every key is absent
C18_ReadReturnsEntriesAfter ==
    ReadOfStreams =>
        IF \A i \in DOMAIN last.args.streams :
               last.preDb[last.args.streams[i].key] = NoItem
        THEN last.reply = empty_string
        ELSE ReplyHoldsEntriesAfter

\* The transmission is an append the reader asked for: to a requested key, with
\* an id greater than that key's `after`, or any id when `after` is `$`
Requested(read_command_streams, xadd) ==
    \E i \in DOMAIN read_command_streams :
        /\ read_command_streams[i].key = xadd.key
        /\ \/ read_command_streams[i].start = AllNewEntries
           \/ /\ read_command_streams[i].start # AllNewEntries
              /\ IdLess(read_command_streams[i].start, xadd)

\* The per-key groups, in arrival order, of the requested transmissions among
\* the first n published
RECURSIVE Accumulated(_, _, _)
Accumulated(read_command_streams, published, n) ==
    IF n = 0
    THEN <<>>
    ELSE LET before == Accumulated(read_command_streams, published, n - 1)
             xadd == published[n].xadd
         IN IF Requested(read_command_streams, xadd)
            THEN accumulate(before, xadd)
            ELSE before

\* How many transmissions were published before the wait was over
PublishedInTime(published, deadline) ==
    Cardinality({i \in DOMAIN published : published[i].at < deadline})

\* C19 (SpecBlock): XREAD BLOCK n with n > 0 does not return before n has
\* elapsed, and its reply holds, grouped per key in arrival order, every
\* requested transmission published during the wait (null when there is none).
\* Transmissions published after the wait was over and before the reader
\* returns may be in the reply or not.
C19_LimitedWaitReturnsAllPublished ==
    (last.op = "XREAD returns" /\ last.block.kind = "Limited") =>
        /\ last.at >= last.start + last.block.wait
        /\ \E n \in PublishedInTime(last.published,
                                    last.start + last.block.wait)
                        ..Len(last.published) :
               last.reply = limited_output(
                   Accumulated(last.read_command_streams, last.published, n))

\* The part of C19 the code keeps: the reader does not return before n has
\* elapsed, and its reply holds the requested transmissions among those first
\* published, as many of them as it received
C19_LimitedWaitReturnsWhatItReceived ==
    (last.op = "XREAD returns" /\ last.block.kind = "Limited") =>
        /\ last.at >= last.start + last.block.wait
        /\ \E n \in 0..Len(last.published) :
               last.reply = limited_output(
                   Accumulated(last.read_command_streams, last.published, n))

\* The XREAD BLOCK 0 that returned in `last` replies with the first requested
\* transmission published since it subscribed, as one stream with one entry
FirstRequestedIsTheReply ==
    \E n \in DOMAIN last.published :
        /\ Requested(last.read_command_streams, last.published[n].xadd)
        /\ \A m \in 1..(n - 1) :
               ~Requested(last.read_command_streams, last.published[m].xadd)
        /\ last.reply =
               encode_streams(<<ReadStreamItem(
                   <<InnerRedisStream(last.published[n].xadd.ms,
                                      last.published[n].xadd.seq,
                                      last.published[n].xadd.data)>>,
                   last.published[n].xadd.key)>>)

\* Reader c is blocked without limit and a requested transmission was published
\* since it subscribed
RequestedWasPublished(c) ==
    /\ conns[c].pc = "xread"
    /\ conns[c].block = Unlimited
    /\ \E n \in DOMAIN conns[c].published :
           Requested(conns[c].read_command_streams, conns[c].published[n].xadd)

ReplyIsOfPublished ==
    \/ last.reply = empty_string
    \/ /\ last.reply.t = "streams"
       /\ \A j \in DOMAIN last.reply.streams :
              \A i \in DOMAIN last.reply.streams[j].streams :
                  \E n \in DOMAIN last.published :
                      last.published[n].xadd =
                          XAddTransmission(last.reply.streams[j].key,
                                           last.reply.streams[j].streams[i].ms,
                                           last.reply.streams[j].streams[i].seq,
                                           last.reply.streams[j].streams[i].items)

\* What reader c's receiver holds unread are the last transmissions published
UnreadArePublished(c) ==
    LET skipped == Len(conns[c].published) - Len(conns[c].received) IN
    /\ skipped >= 0
    /\ \A i \in DOMAIN conns[c].received :
           conns[c].received[i] = conns[c].published[skipped + i].xadd

RangeOfAll(key) ==
    read_from_stream(db, tasks, key, Unspecified, Unspecified).reply.entries

\* C22 (SpecStream): an XADD that returns an id appends one entry with that id
\* and the command's fields, and publishes one transmission with the same key,
\* id and fields; XRANGE key - + right after holds that id once, with its ids
\* strictly increasing
C22_XaddAppendsAndPublishesOnce ==
    (last.op = "XADD" /\ last.reply.t = "id") =>
        LET inner == InnerRedisStream(last.reply.ms, last.reply.seq, last.args.data)
            before == IF last.pre.kind = "stream" THEN last.pre.entries ELSE <<>>
        IN /\ db[last.key] = RedisStream(Append(before, inner))
           /\ last.sent = <<XAddTransmission(last.key, last.reply.ms,
                                             last.reply.seq, last.args.data)>>
           /\ Cardinality({i \in DOMAIN RangeOfAll(last.key) :
                              /\ RangeOfAll(last.key)[i].ms = last.reply.ms
                              /\ RangeOfAll(last.key)[i].seq = last.reply.seq}) = 1
           /\ StrictlyIncreasing(RangeOfAll(last.key))

\* An XADD has returned an id for a stream that already held two entries
C22_Witness ==
    /\ last.op = "XADD"
    /\ last.reply.t = "id"
    /\ last.pre.kind = "stream"
    /\ Len(last.pre.entries) = 2
    /\ Len(RangeOfAll(last.key)) = 3

\* The entry lies between the bounds, each taken as unbounded or as an id
Between(entry, start, end) ==
    /\ start = Unspecified \/ (start # Unspecified /\ ~IdLess(entry, start))
    /\ end = Unspecified \/ (end # Unspecified /\ ~IdLess(end, entry))

\* C23 (SpecRead): XRANGE key start end returns, in insertion order, the
\* entries e of the stream with start <= e.id <= end; "-" and "+" are
\* unbounded and a lone integer m is the id m-0; an absent key gives the null
\* bulk reply
C23_RangeIsInclusive ==
    /\ (last.op = "XRANGE" /\ last.pre.kind # "string") =>
           IF last.pre = NoItem
           THEN last.reply = empty_string
           ELSE last.reply =
                    encode_stream(SelectSeq(last.pre.entries,
                        LAMBDA entry : Between(entry, last.args.start,
                                               last.args.end)))
    /\ parse_xrange(<<"k1", "-", "+">>) =
           Ok(Command("Xrange", XRangeCommand("k1", Unspecified, Unspecified)))
    /\ \A m \in NatRange, n \in NatRange :
           /\ parse_xrange(<<"k1", ToString(m), ToString(n)>>) =
                  Ok(Command("Xrange", XRangeCommand("k1", Specified(m, 0),
                                                     Specified(n, 0))))
           /\ parse_xrange(<<"k1", ToString(m) \o "-" \o ToString(n), "+">>) =
                  Ok(Command("Xrange", XRangeCommand("k1", Specified(m, n),
                                                     Unspecified)))

\* XRANGE k 1-1 1-1 has returned the middle one of three entries
C23_Witness ==
    /\ last.op = "XRANGE"
    /\ last.pre.kind = "stream"
    /\ Len(last.pre.entries) = 3
    /\ last.args.start = Specified(1, 1)
    /\ last.args.end = Specified(1, 1)
    /\ last.reply.t = "stream"
    /\ Len(last.reply.entries) = 1

---------------------------------------------------------------------------
(* Claims about replication, checked under SpecRepl *)

\* C2 (SpecRepl): the frames written to each replica stream are in the order
\* in which the Primary executed their commands.
C2_FramesInExecutionOrder ==
    \A s \in Conns :
        \A i \in 1..Len(wire[s]) : \A j \in 1..Len(wire[s]) :
            i < j => wire[s][i].n < wire[s][j].n

\* Nothing is between execution and fan-out, and every replica has read
\* every frame written to it
Quiescent ==
    /\ \A c \in Conns : conns[c].pc # "write"
    /\ \A s \in Range(master.streams) : replicas[s].read = Len(wire[s])

\* C3 (SpecRepl): once quiescent, a replica attached in sync with the Primary
\* answers GET k as the Primary does, for every key.
C3_ReplicaConverges ==
    Quiescent =>
        \A s \in attachedInSync : \A k \in Keys :
            get_value(replicas[s].db, replicas[s].tasks, k).reply
                = get_value(db, tasks, k).reply

\* C4 (SpecRepl): a command that can change the store (and GET) is classified
\* ToReplicate, PSYNC is classified Psync, every other command Other.
C4_MutatingCommandsAreReplicated ==
    \A c \in Conns :
        conns[c].pc = "write" =>
            conns[c].command_type =
                CASE conns[c].request.op \in
                         {"Set", "Get", "Del", "GetDel", "GetEx", "Incr", "IncrBy",
                          "IncrByFloat", "Decr", "DecrBy", "Xadd"} -> "ToReplicate"
                  [] conns[c].request.op = "Psync" -> "Psync"
                  [] OTHER -> "Other"

---------------------------------------------------------------------------
(* Claims about attached replicas, checked under SpecFail *)

\* The handlers of the connections in the replica set have returned
AttachedHandlersAreOver ==
    \A s \in Range(master.streams) : conns[s].pc \in {"returned", "closed"}

\* The step is replicate_command forwarding the frame of handler c
Forwards(c) ==
    /\ conns[c].pc = "write"
    /\ conns[c].command_type = "ToReplicate"
    /\ conns'[c].pc # "write"

\* The frame handler c holds is written to replica stream s in the step
Receives(s, c) ==
    wire'[s] = Append(wire[s], [request |-> conns[c].request, n |-> conns[c].n])

\* C28 (SpecFail): after PSYNC the connection is in the replica set and its
\* handler has returned, so that nothing it receives later is executed as a
\* client command, and every frame forwarded from then on is written to it
C28_AttachedReceivesEveryFrame ==
    [][/\ AttachedHandlersAreOver'
       /\ \A c \in Conns : Forwards(c) =>
              \A s \in Range(master.streams) :
                  conns[s].pc = "returned" => Receives(s, c)]_vars

\* What holds after PSYNC: the handler has returned, and a frame forwarded is
\* written to the connection unless a replica attached before it has gone
C28_AttachedReceivesUnlessEarlierGone ==
    /\ []AttachedHandlersAreOver
    /\ [][\A c \in Conns : Forwards(c) =>
              \A i \in 1..Len(master.streams) :
                  (\A j \in 1..i : conns[master.streams[j]].pc = "returned")
                      => Receives(master.streams[i], c)]_vars

---------------------------------------------------------------------------
(* Claims about WAIT, checked under SpecWait *)

\* The step is one of Wait: a command is counted and no handler starts writing
WaitStep ==
    /\ executed' = executed + 1
    /\ last'.op = "WAIT"
    /\ \A c \in Conns : conns'[c].pc = "write" => conns[c].pc = "write"

\* C24 (SpecWait): a WAIT with num_replicas > 0 that answers has sent
\* REPLCONF GETACK * to each attached replica and answers the number of
\* replicas it was sent to, whatever was replicated before
C24_WaitCountsAttemptedSends ==
    (last.op = "WAIT" /\ last.num_replicas > 0 /\ last.result.t = "Ok") =>
        /\ last.result.sent = last.pre.streams
        /\ last.result.v = Len(last.result.sent)

\* C25 (SpecWait): a WAIT with num_replicas = 0 answers the number of attached
\* replicas, sends nothing, leaves the replicated byte counter alone and does
\* not sleep
C25_WaitZeroReturnsAtOnce ==
    /\ [](last.op = "WAIT" /\ last.num_replicas = 0 =>
              /\ last.result.t = "Ok"
              /\ last.result.v = Len(last.pre.streams)
              /\ last.result.sent = <<>>
              /\ last.result.slept = 0
              /\ last.result.master = last.pre)
    /\ [][(WaitStep /\ last'.num_replicas = 0) =>
              /\ master' = master
              /\ wire' = wire
              /\ conns' = conns]_vars

\* WAIT 0 1 after a SET, with one replica attached, has answered 1
C25_Witness ==
    /\ last.op = "WAIT"
    /\ last.num_replicas = 0
    /\ last.timeout = 1
    /\ last.pre.num_sets = 1
    /\ Len(last.pre.streams) = 1
    /\ last.result.v = 1
    /\ master = last.pre

\* The step is replicate_command counting the frame of a handler
ReplicateStep(delta) ==
    \E c \in Conns :
        /\ conns[c].pc = "write"
        /\ conns[c].command_type = "ToReplicate"
        /\ conns'[c].pc # "write"
        /\ delta = CommandLen(conns[c].request)

\* C26 (SpecWait): the replicated byte counter never decreases; it grows by
\* the length of a frame when replicate_command forwards it and by the length
\* of REPLCONF GETACK * when a WAIT has sent that frame to the replicas, and it
\* changes in no other step
C26_CounterGrowsByFramesSent ==
    [][/\ master'.byte_offset >= master.byte_offset
       /\ master'.byte_offset # master.byte_offset =>
              \/ ReplicateStep(master'.byte_offset - master.byte_offset)
              \/ /\ WaitStep
                 /\ last'.result.sent = master.streams
                 /\ master'.byte_offset =
                        master.byte_offset + CommandLen(get_ack)]_vars

\* What holds of the counter: it never decreases, and it changes only by the
\* frame replicate_command is given or by the length of REPLCONF GETACK * in a
\* WAIT with num_replicas > 0 whose writes did not fail
C26_CounterGrowsByFramesCounted ==
    [][/\ master'.byte_offset >= master.byte_offset
       /\ master'.byte_offset # master.byte_offset =>
              \/ ReplicateStep(master'.byte_offset - master.byte_offset)
              \/ /\ WaitStep
                 /\ last'.num_replicas > 0
                 /\ last'.result.t # "Err"
                 /\ master'.byte_offset =
                        master.byte_offset + CommandLen(get_ack)]_vars

---------------------------------------------------------------------------
(* Claims about the handshake, checked under SpecSync *)

\* The four frames of the handshake, in order
HandshakeFrames ==
    <<<<"ping">>, <<"REPLCONF", "listening-port", ListeningPort>>,
      <<"REPLCONF", "capa", "psync2">>, <<"PSYNC", "?", "-1">>>>

\* The answer to PSYNC is +FULLRESYNC <id> <offset> CRLF
IsFullResync(response) ==
    /\ response.header = "+FULLRESYNC"
    /\ response.id.first = " "
    /\ response.id.rest \in HexIds
    /\ response.offset.first = " "
    /\ response.offset.rest \in {ToString(n) : n \in NatRange}
    /\ response.crlf = "\r\n"

\* The snapshot begins with $<n> CRLF
IsSnapshot(response) ==
    /\ response.size.first = "$"
    /\ \E n \in NatRange : response.size.rest = ToString(n) \o "\r"

\* The replies read so far are the expected ones
ExpectedReplies(replies) ==
    /\ Len(replies) >= 1 => replies[1] = "+PONG\r\n"
    /\ Len(replies) >= 2 => replies[2] = "+OK\r\n"
    /\ Len(replies) >= 3 => replies[3] = "+OK\r\n"
    /\ Len(replies) >= 4 => IsFullResync(replies[4])
    /\ Len(replies) >= 5 => IsSnapshot(replies[5])

\* The frames are written in the order of the handshake, each after the reply
\* to the one before
InHandshakeOrder ==
    /\ Len(sync.written) <= 4
    /\ sync.written = SubSeq(HandshakeFrames, 1, Len(sync.written))
    /\ Len(sync.replies) <= 5
    /\ sync.pc \notin {"failed", "snapshot", "synced"} =>
           Len(sync.written) = Len(sync.replies) + 1 \/ sync.pc = "connect"

\* C27 (SpecSync): the handshake is PING, REPLCONF listening-port, REPLCONF
\* capa psync2, PSYNC ? -1 and the snapshot, in this order; the streaming task
\* is spawned, and the Primary's id and offset are recorded, only after every
\* reply was the expected one, and an unexpected reply at any step fails the
\* handshake with no task spawned
C27_HandshakeInOrderOrFails ==
    /\ InHandshakeOrder
    /\ sync.spawned =>
           /\ sync.written = HandshakeFrames
           /\ Len(sync.replies) = 5
           /\ ExpectedReplies(sync.replies)
           /\ sync.id = sync.replies[4].id.rest
           /\ sync.offset = parse_u64(sync.replies[4].offset.rest)
    /\ ~ExpectedReplies(sync.replies) => (sync.pc = "failed" /\ ~sync.spawned)

\* What holds of the handshake: the order, and that the task is spawned only
\* after +PONG, +OK, +OK, a header +FULLRESYNC with an offset that parses, a
\* CRLF and a snapshot size that parses
C27_HandshakeInOrder ==
    /\ InHandshakeOrder
    /\ sync.spawned =>
           /\ sync.written = HandshakeFrames
           /\ Len(sync.replies) = 5
           /\ sync.replies[1] = "+PONG\r\n"
           /\ sync.replies[2] = "+OK\r\n"
           /\ sync.replies[3] = "+OK\r\n"
           /\ sync.replies[4].header = "+FULLRESYNC"
           /\ sync.replies[4].crlf = "\r\n"
           /\ sync.id = sync.replies[4].id.rest
           /\ sync.offset = parse_u64(sync.replies[4].offset.rest)
           /\ sync.offset # NotANumber
    /\ (Len(sync.replies) \in 1..3 /\ ~ExpectedReplies(sync.replies)) =>
           (sync.pc = "failed" /\ ~sync.spawned)

---------------------------------------------------------------------------
(* Claims about the replica's handler, checked under SpecWait *)

\* The bytes of the first n frames written to a replica stream
RECURSIVE FrameBytes(_, _)
FrameBytes(frames, n) ==
    IF n = 0
    THEN 0
    ELSE FrameBytes(frames, n - 1) + CommandLen(frames[n].request)

\* C29 (SpecWait): the replica's handler writes nothing back for a replicated
\* GET or SET, and answers REPLCONF GETACK * with REPLCONF ACK n, n being the
\* bytes of the frames it processed on the connection before the GETACK; the
\* GETACK frame itself is counted after the answer
C29_AckCountsFramesBefore ==
    last.op = "ReplicaApply" =>
        LET s == last.stream
            read == replicas[s].read
        IN /\ last.request = wire[s][read].request
           /\ last.request.op \in {"Get", "Set"} => last.written = <<>>
           /\ last.request = get_ack =>
                  last.written =
                      <<encode_string_array(
                            <<"REPLCONF", "ACK",
                              ToString(FrameBytes(wire[s], read - 1))>>)>>
           /\ replicas[s].bytes_received = FrameBytes(wire[s], read)

\* A replica has answered a GETACK that came after a SET with REPLCONF ACK 28
C29_Witness ==
    /\ last.op = "ReplicaApply"
    /\ last.request = get_ack
    /\ replicas[last.stream].read = 2
    /\ wire[last.stream][1].request.op = "Set"
    /\ last.written = <<encode_string_array(<<"REPLCONF", "ACK", "28">>)>>
    /\ replicas[last.stream].bytes_received = 65


---------------------------------------------------------------------------
(* Claims about pipelined frames, checked under SpecPipeline *)

\* handle_stream's CommandType::ToReplicate, told from a frame's first word
IsToReplicate(frame) == Head(frame) \in {"GET", "SET"}

\* C34 (SpecPipeline): when one read delivers several complete frames, the
\* handler runs one command and writes one reply for each frame, and hands
\* to replicate_command the bytes of the GET and SET frames, frame by frame
C34_EachFrameIsACommand ==
    (last.op = "HandleRead" /\ \A i \in 1..Len(last.frames) :
                                   last.frames[i] \in PipelinedFrames) =>
        /\ Len(last.written) = Len(last.frames)
        /\ last.replicated = SelectSeq(last.frames, IsToReplicate)

\* What holds: a read is one command at most, with one reply, and what is
\* handed to replicate_command is all the bytes read; both agree with the
\* frames when the read delivered one frame
C34_EachReadIsACommand ==
    last.op = "HandleRead" =>
        /\ Len(last.written) <= 1
        /\ last.replicated \in {<<>>, last.frames}
        /\ (Len(last.frames) = 1 /\ last.written # <<>>) =>
               last.replicated = SelectSeq(last.frames, IsToReplicate)

---------------------------------------------------------------------------
(* Claims about the replica's decoder, checked under SpecFrame *)

\* The read delivered whole frames and nothing else
WholeFrames(chunk) ==
    /\ chunk.tail = ""
    /\ \E n \in 0..MaxCommands : \E fs \in [1..n -> ForwardedFrames] :
           chunk.lines = raw_lines(fs)

\* C35 (SpecFrame): a read of the replica's handler that ends inside a frame
\* is no error and loses nothing: the handler goes on reading, and once all
\* the bytes forwarded have been read it has counted every frame's length once
C35_PartialFrameIsKept ==
    last.op = "ReplicaRead" =>
        /\ last.result = "Ok"
        /\ wire[last.stream] = <<>> =>
               replicas[last.stream].bytes_received = master.byte_offset

\* What holds: a read that delivers whole frames is no error, and each of its
\* frames is run and counted once
C35_WholeFramesAreCounted ==
    (last.op = "ReplicaRead" /\ WholeFrames(last.chunk)) =>
        /\ last.result = "Ok"
        /\ replicas[last.stream].bytes_received
               = last.pre.bytes_received
                     + bytes_read(last.chunk.lines, 1, Len(last.chunk.lines))
        /\ wire[last.stream] = <<>> =>
               replicas[last.stream].bytes_received = master.byte_offset

\* A read that delivered two frames at once
C35_Witness ==
    /\ last.op = "ReplicaRead"
    /\ WholeFrames(last.chunk)
    /\ Len(last.chunk.lines) > 7

---------------------------------------------------------------------------
(* Claims about the lock of WAIT, checked under SpecSleep *)

\* C37 (SpecSleep): while a WAIT sleeps for the rest of its timeout, the
\* server's lock is free: a connection that has run GET or SET can forward
\* its frame, and one that has answered PSYNC can be attached
C37_WaitSleepsUnlocked ==
    \A w \in Conns, c \in Conns :
        (conns[w].pc = "sleep" /\ conns[c].pc = "write") =>
            CASE conns[c].command_type = "ToReplicate" -> ENABLED ReplicateUnlocked(c)
              [] conns[c].command_type = "Psync" -> ENABLED AttachUnlocked(c)
              [] OTHER -> TRUE

\* What holds: while a WAIT sleeps nothing is forwarded, counted or attached
C37_WaitSleepsLocked ==
    [][(\E w \in Conns : conns[w].pc = "sleep" /\ conns'[w].pc = "sleep") =>
           (master' = master /\ wire' = wire)]_vars

---------------------------------------------------------------------------
(* Claims about a replica attaching, checked under SpecAttach *)

\* C38 (SpecAttach): a GET or SET that the Primary runs after the reply to
\* PSYNC has been written to a connection is forwarded to that connection,
\* also when the connection is not yet in the list of replica streams
C38_NoWriteLostWhileAttaching ==
    [][\A c \in Conns, s \in Conns :
          (/\ ReplicateCommand(c)
           /\ conns[s].pc = "replied"
           /\ conns[c].n > conns[s].at) =>
              wire'[s] = Append(wire[s], [request |-> conns[c].request,
                                          n |-> conns[c].n])]_vars

\* What holds: a GET or SET is forwarded to every connection that add_stream
\* has put in the list before replicate_command runs
C38_ForwardedOnceAttached ==
    [][\A c \in Conns, s \in Conns :
          (ReplicateCommand(c) /\ s \in Range(master.streams)) =>
              wire'[s] = Append(wire[s], [request |-> conns[c].request,
                                          n |-> conns[c].n])]_vars

---------------------------------------------------------------------------
(* Claims about the two byte counters, checked under SpecWait *)

\* The bytes of all the frames written to the stream: what the replica's
\* bytes_received is once it has processed them (C29)
Written(frames) == FrameBytes(frames, Len(frames))

\* C40 (SpecWait): in every step, the Primary's byte counter grows by the
\* bytes written in that step to each replica already attached; so a replica
\* that has processed every frame written to it has counted the growth of
\* the Primary's counter since it was attached
C40_ReplicaCountsWhatPrimaryCounts ==
    [][\A s \in Range(master.streams) :
          Written(wire'[s]) - Written(wire[s])
              = master'.byte_offset - master.byte_offset]_vars

\* What holds: the two agree in the steps of replicate_command and of WAIT
\* that write their frame to every attached replica
C40_CountersAgreeWhenAllWritten ==
    [][\A s \in Range(master.streams) :
          (/\ FirstFailed(master.streams) > Len(master.streams)
           /\ WaitStep => last'.result.sent = master.streams) =>
              Written(wire'[s]) - Written(wire[s])
                  = master'.byte_offset - master.byte_offset]_vars
====
